---- MODULE Spec2Model ----
(***************************************************************************)
(* Campaign dispatch and engagement tracking of council-connect.           *)
(*                                                                         *)
(* Strings that the code inspects (emails, names) are sequences of         *)
(* one-character strings, so that trim(), toLowerCase() and the e-mail     *)
(* regular expression are computed the way the code computes them.         *)
(*                                                                         *)
(* Hook values: useOptionalKV (src/src/types/domain.ts:161-168) is GitHub  *)
(* Spark's useKV when VITE_FE_TEST_KV is 'true' and a plain useState       *)
(* otherwise.  In KV mode a hook value is read as the KV entry itself and  *)
(* a hook setter writes the KV entry; in API mode the value is local to    *)
(* the component.  Direct window.spark.kv get/set calls are separate       *)
(* steps, because every await is a scheduling point.                       *)
(*                                                                         *)
(* Specifications, all over the same variables:                            *)
(*   SpecUnsub  unsubscribe requests (recordUnsubscribe, Settings, page)   *)
(*   SpecSend   suppression at send time (lists, composer, unsubscribes)   *)
(*   SpecTrack  engagement tracking (recordEmailOpen, recordUnsubscribe)   *)
(*   SpecLists  contact lists (addContact, CSV import)                     *)
(*   SpecContacts  addContact with every kind of input                     *)
(*   SpecTenant    tenant resolution and the tracking functions' keys      *)
(*   SpecAuth      AuthProvider and App under every configuration          *)
(*   SpecContent   processEmailContent over message bodies                 *)
(*   SpecCampaign  drafts and sends of the EmailComposer                   *)
(*   SpecHandlers  createTrackingHandlers and the unsubscribe page         *)
(*   SpecDelete    deleteList and removeContact with backend deletes       *)
(*   SpecDeleteList  deleteList, one backend delete at a time              *)
(*   SpecCsv       import of files under every header order and spelling   *)
(*   SpecExport    downloadContactsCsv read back by parseCsvContacts       *)
(*   SpecMetrics   getEmailMetrics over opens and unsubscribes logs        *)
(*   SpecListing   sorting and paging of a list card                       *)
(*   SpecInfer     tenant inference of apiClient and getCouncillorKey      *)
(*   SpecImport    CSV imports with failing API calls                      *)
(*   SpecImportFair  one import under fair scheduling of its awaits        *)
(***************************************************************************)
EXTENDS Integers, Sequences, FiniteSets, TLC

\* ------------------------------------------------------------------ bounds
MaxClock == 3
NumCalls == 2
MaxUnsub == 3
MaxContacts == 2
MaxLists == 1
MaxSendClock == 4
MaxTrackClock == 4
MaxListClock == 4
MaxRows == 2
MaxContactClock == 4
MaxTenantClock == 3
MaxTokens == 3
MaxCampaignClock == 7
MaxHandlerClock == 3
MaxDeleteClock == 6
MaxPendingDeletes == 2
MaxOpens == 3
MaxTotalSent == 2
MaxStoredPage == 3
MaxImportClock == 6

\* ----------------------------------------------------------- string helpers
IsSpace(ch) == ch \in {" ", "\t", "\n", "\r"}

UpperCase ==
  <<"A", "B", "C", "D", "E", "F", "G", "H", "I", "J", "K", "L", "M",
    "N", "O", "P", "Q", "R", "S", "T", "U", "V", "W", "X", "Y", "Z">>
LowerCase ==
  <<"a", "b", "c", "d", "e", "f", "g", "h", "i", "j", "k", "l", "m",
    "n", "o", "p", "q", "r", "s", "t", "u", "v", "w", "x", "y", "z">>

UpperLetters == {UpperCase[i] : i \in 1..Len(UpperCase)}

ToLowerChar(ch) ==
  IF ch \in UpperLetters
  THEN LowerCase[CHOOSE i \in 1..Len(UpperCase) : UpperCase[i] = ch]
  ELSE ch

ToLowerCase(s) == [i \in 1..Len(s) |-> ToLowerChar(s[i])]

RECURSIVE TrimStart(_)
TrimStart(s) ==
  IF s = <<>> THEN <<>>
  ELSE IF IsSpace(Head(s)) THEN TrimStart(Tail(s)) ELSE s

RECURSIVE TrimEnd(_)
TrimEnd(s) ==
  IF s = <<>> THEN <<>>
  ELSE IF IsSpace(s[Len(s)]) THEN TrimEnd(SubSeq(s, 1, Len(s) - 1)) ELSE s

Trim(s) == TrimEnd(TrimStart(s))

\* email.trim().toLowerCase()
NormalizeEmail(s) == ToLowerCase(Trim(s))

\* /^[^\s@]+@[^\s@]+\.[^\s@]+$/.test(s)
EMAIL_REGEX(s) ==
  \E i \in 1..Len(s), j \in 1..Len(s) :
    /\ s[i] = "@"
    /\ s[j] = "."
    /\ i > 1
    /\ j > i + 1
    /\ j < Len(s)
    /\ \A k \in 1..Len(s) : ~IsSpace(s[k]) /\ (k # i => s[k] # "@")

\* String.prototype.includes
StrIncludes(s, sub) ==
  \E i \in 0..(Len(s) - Len(sub)) : SubSeq(s, i + 1, i + Len(sub)) = sub

\* String.prototype.startsWith
StartsWith(s, prefix) ==
  Len(prefix) <= Len(s) /\ SubSeq(s, 1, Len(prefix)) = prefix

\* Array.prototype.includes / some / filter on sequences
Includes(list, x) == \E i \in 1..Len(list) : list[i] = x

RECURSIVE FilterOut(_, _)
FilterOut(list, x) ==
  IF list = <<>> THEN <<>>
  ELSE IF Head(list) = x THEN FilterOut(Tail(list), x)
       ELSE <<Head(list)>> \o FilterOut(Tail(list), x)

Range(list) == {list[i] : i \in 1..Len(list)}

\* number of positions of list whose value satisfies normalized equality
CountNorm(list, e) ==
  Cardinality({i \in 1..Len(list) : NormalizeEmail(list[i]) = NormalizeEmail(e)})

CountExact(list, e) == Cardinality({i \in 1..Len(list) : list[i] = e})

\* ------------------------------------------------------------- input domains
EmailA == <<"a", "@", "x", ".", "c">>
EmailAUpper == <<"A", "@", "x", ".", "c">>
EmailB == <<"b", "@", "x", ".", "c">>
EmailNoDot == <<"a", "@", "x">>
EmailEmpty == <<>>

ValidEmails == {EmailA, EmailAUpper, EmailB}
InputEmails == ValidEmails \cup {EmailNoDot, EmailEmpty}
UnsubEmails == {EmailA, EmailAUpper}
PageEmails == {EmailA, EmailNoDot, EmailEmpty}
OpenEmails == {EmailA, EmailB}
ListEmails == {EmailA, EmailAUpper}
SendEmails == {EmailA, EmailB}

NameJ == <<"J">>
NameBlank == <<" ">>
InputNames == {NameJ, NameBlank}

EmailIds == {"e1"}
None == "none"

\* --------------------------------------------------------------------- state
VARIABLES
  kvTestMode,            \* VITE_FE_TEST_KV === 'true'
  now,                   \* Date.now()
  distributionLists,     \* hook value / KV entry 'distribution-lists'
  apiDistributionLists,  \* EmailComposer's lists in API mode
  pendingAdds,           \* apiClient.addContact requests of addContact in flight
  unsubscribedEmails,    \* KV entry 'unsubscribed-emails'
  completedUnsubscribes, \* history: addresses of completed recordUnsubscribe
                         \* calls that were not explicitly removed since
  emailUnsubscribes,     \* KV entries 'email-unsubscribes:<emailId>'
  emailOpens,            \* KV entries 'email-opens:<emailId>'
  trackingRecords,       \* KV entries 'tracking:<trackingId>'
  completedOpens,        \* history: recipients of completed recordEmailOpen calls
  calls,                 \* in-flight recordUnsubscribe / recordEmailOpen calls
  page,                  \* UnsubscribePage component state
  form,                  \* EmailComposer form state
  drafts,                \* hook value / KV entry 'email-drafts'
  lastSend,              \* recipients computed by the latest sendEmail
  imports,               \* handleFileChange calls in flight, by list id
  importStatus,          \* DistributionLists state importStatus
  importingLists,        \* DistributionLists state importingLists (ids set to true)
  lastImport,            \* history: the rows the latest import has parsed
  contactToast,          \* the latest toast of DistributionLists.addContact
  otherForm,             \* form state of an EmailComposer in another browser tab
  window,                \* location and __councillorContext of the browser window
  settings,              \* getClientAuthSettings(): the VITE_AUTH_* configuration
  auth,                  \* useAuthState state of the AuthProvider
  app,                   \* App component: mounted, isUnsubscribePage, what it shows
  sparkKv,               \* window.spark.kv as a whole: key |-> value
  kvUsers,               \* history: key |-> councillor ids whose calls used the key
  processed,             \* the latest processEmailContent call and its result
  handled,               \* the latest tracking-handler request and its outcome
  pendingDeletes,        \* apiClient.deleteDistributionList / deleteContact in flight
  deleteCalls,           \* history: the latest two deleteList calls
  deletedOnBackend,      \* history: list ids whose backend delete has succeeded
  contactListing,        \* a contact listing: contacts, sort state, page state
  csvParsed,             \* the latest parseCsvContacts call and its result
  metricsCall,           \* the latest getEmailMetrics call and its result
  inferredTenant         \* the latest tenant inference of the API client

importVars == <<imports, importStatus, importingLists, lastImport>>
listVars == <<distributionLists, apiDistributionLists, pendingAdds, importVars>>
suppressionVars == <<unsubscribedEmails, completedUnsubscribes>>
trackingVars == <<emailUnsubscribes, emailOpens, trackingRecords, completedOpens>>
composerVars == <<form, drafts, lastSend>>

\* state outside the list, suppression, tracking and composer groups
sessionVars == <<window, settings, auth, app>>
storeVars == <<sparkKv, kvUsers>>
ioVars == <<processed, handled>>
auxVars == <<pendingDeletes, deleteCalls, deletedOnBackend, contactListing, csvParsed, metricsCall, inferredTenant>>
extVars == <<contactToast, otherForm, ioVars, sessionVars, storeVars, auxVars>>

vars == <<kvTestMode, now, listVars, suppressionVars, trackingVars, calls, page,
          composerVars, extVars>>

CallIds == 1..NumCalls

IdleCall ==
  [pc |-> "idle", kind |-> None, emailId |-> None, recipientEmail |-> <<>>,
   at |-> 0, cur |-> <<>>, caller |-> None, removed |-> FALSE]

\* useState initial values of UnsubscribePage (props come from the URL)
InitialPage(initialEmail, trackingId) ==
  [email |-> initialEmail, isUnsubscribed |-> FALSE, isLoading |-> FALSE,
   error |-> "", unsubscribedEmails |-> <<>>, pc |-> "idle",
   trackingId |-> trackingId]

NoImport == [listId |-> 0, at |-> 0, parsed |-> <<>>]

Localhost == <<"l", "o", "c", "a", "l", "h", "o", "s", "t">>
DefaultCouncillor ==
  <<"d", "e", "f", "a", "u", "l", "t", "-", "c", "o", "u", "n", "c", "i", "l",
    "l", "o", "r">>
DefaultTenant == <<"d", "e", "f", "a", "u", "l", "t">>

\* councillor ids carried by sign-in claims or by the query string
W1 == <<"w", "1">>
W2 == <<"w", "2">>
W9 == <<"w", "9">>

HostW1 == <<"w", "1", ".", "x", ".", "c">>
PathRoot == <<"/">>
PathUnsubscribe ==
  <<"/", "u", "n", "s", "u", "b", "s", "c", "r", "i", "b", "e">>
PathUnsubscribeCapital ==
  <<"/", "U", "n", "s", "u", "b", "s", "c", "r", "i", "b", "e">>

\* an absent account; a present one carries its id token claims ("" is absent)
NoAccount == [present |-> FALSE, councillorClaim |-> <<>>, oid |-> <<>>]
Account(councillorClaim, oid) ==
  [present |-> TRUE, councillorClaim |-> councillorClaim, oid |-> oid]

\* URLSearchParams of the location; an absent parameter is ""
NoSearch == [id |-> <<>>, email |-> <<>>, councillorId |-> <<>>]

\* App before its first render
NoApp == [mounted |-> FALSE, isUnsubscribePage |-> FALSE, effects |-> FALSE,
          shows |-> None, requested |-> None]

\* currentDraft null; the ids of drafts are positive timestamps
NoDraft == 0

InitialForm ==
  [subject |-> <<>>, content |-> <<>>, selectedLists |-> {}, currentDraft |-> NoDraft]

NoSend ==
  [sent |-> FALSE, all |-> <<>>, active |-> <<>>, filtered |-> 0, unsubscribed |-> <<>>,
   toast |-> None, threw |-> FALSE, dispatched |-> FALSE]

InitCoreAt(clock, lists) ==
  /\ kvTestMode \in BOOLEAN
  /\ now = clock
  /\ distributionLists = lists
  /\ apiDistributionLists = <<>>
  /\ pendingAdds = {}
  /\ unsubscribedEmails = <<>>
  /\ completedUnsubscribes = {}
  /\ emailUnsubscribes = [id \in EmailIds |-> <<>>]
  /\ emailOpens = [id \in EmailIds |-> <<>>]
  /\ trackingRecords = {}
  /\ completedOpens = [id \in EmailIds |-> <<>>]
  /\ calls = [c \in CallIds |-> IdleCall]
  /\ \E e \in {EmailEmpty, EmailA}, t \in {None, "e1"} : page = InitialPage(e, t)
  /\ form = InitialForm
  /\ drafts = <<>>
  /\ lastSend = NoSend
  /\ imports = <<>>
  /\ importStatus = <<>>
  /\ importingLists = {}
  /\ lastImport = NoImport

InitCore == InitCoreAt(1, <<>>)

\* initial values of the state outside the core groups
InitForms ==
  /\ contactToast = None
  /\ otherForm = InitialForm

InitStore ==
  /\ sparkKv = <<>>
  /\ kvUsers = <<>>

\* no processEmailContent call and no tracking-handler request so far
NoProcessed == [called |-> FALSE]
NoHandled == [called |-> FALSE]

\* nothing listed, parsed, measured or inferred so far; no delete in flight
NoProbe == [called |-> FALSE]

InitAux ==
  /\ pendingDeletes = {}
  /\ deleteCalls = <<>>
  /\ deletedOnBackend = {}
  /\ contactListing = NoProbe
  /\ csvParsed = NoProbe
  /\ metricsCall = NoProbe
  /\ inferredTenant = NoProbe

InitIo ==
  /\ processed = NoProcessed
  /\ handled = NoHandled
  /\ InitAux

\* a window at location with configuration sett, before the first render
InitSession(sett, hostname, pathname, search) ==
  /\ settings = sett
  /\ window = [hostname |-> hostname, pathname |-> pathname, search |-> search,
               councillorContext |-> <<>>]
  /\ auth = [mounted |-> FALSE, loading |-> sett.mode # "off",
             initialized |-> FALSE, account |-> NoAccount, error |-> FALSE]
  /\ app = NoApp

\* VITE_AUTH_MODE unset: getClientAuthSettings returns mode off, bypassAuth true
SettingsOff ==
  [mode |-> "off", bypassAuth |-> TRUE, clientId |-> FALSE,
   fallbackCouncillorId |-> DefaultCouncillor]

InitExt ==
  /\ InitForms
  /\ InitStore
  /\ InitIo
  /\ InitSession(SettingsOff, Localhost, PathRoot, NoSearch)

Init == InitCore /\ InitExt

\* the browser shows the main application, not the unsubscribe route
InitMain == Init /\ page = InitialPage(EmailEmpty, None)

\* the unsubscribe page was opened from a link that carries the address
InitLinked == Init /\ page.email = EmailA

\* ------------------------------------------------------- UnsubscribePage view
\* the list the page's useOptionalKV hook returns
PageList(pg, kv) == IF kvTestMode THEN kv ELSE pg.unsubscribedEmails

\* useEffect(() => { if (email && list.includes(email)) setIsUnsubscribed(true) })
PageEffect(pg, kv) ==
  IF pg.email # <<>> /\ Includes(PageList(pg, kv), pg.email)
  THEN [pg EXCEPT !.isUnsubscribed = TRUE]
  ELSE pg

\* history: an explicit removal of email reaches the calls in flight for it
MarkRemoved(cs, email) ==
  [c \in CallIds |->
     IF cs[c].pc # "idle" /\ cs[c].recipientEmail = email
     THEN [cs[c] EXCEPT !.removed = TRUE] ELSE cs[c]]

\* ------------------------------------------------------------ recordUnsubscribe
\* call slots are interchangeable: a new call takes the first free one
FreeCall(c) ==
  /\ calls[c].pc = "idle"
  /\ \A d \in 1..(c - 1) : calls[d].pc # "idle"

StartedUnsubscribe(emailId, e, caller) ==
  [pc |-> "getList", kind |-> "unsubscribe", emailId |-> emailId,
   recipientEmail |-> e, at |-> now, cur |-> <<>>, caller |-> caller,
   removed |-> FALSE]

\* TrackingHandler / createTrackingHandlers().handleUnsubscribe calling
\* recordUnsubscribe(emailId, recipientEmail): runs up to the first await
recordUnsubscribeCall(c, emailId, e) ==
  /\ kvTestMode
  /\ FreeCall(c)
  /\ calls' = [calls EXCEPT ![c] = StartedUnsubscribe(emailId, e, "direct")]
  /\ now' = now + 1
  /\ UNCHANGED <<kvTestMode, listVars, suppressionVars, trackingVars, page, composerVars,
                 extVars>>

\* faulty variant: recordUnsubscribe without its includes() check
AfterGetListUnchecked(currentUnsubscribed, recipientEmail) == "setList"

\* the step taken once kv.get(unsubscribedKey) has returned currentUnsubscribed
AfterGetList(currentUnsubscribed, recipientEmail) ==
  IF Includes(currentUnsubscribed, recipientEmail) THEN "getEvents" ELSE "setList"

\* await kv.get(unsubscribedKey) || []
recordUnsubscribeGetList(c) ==
  /\ calls[c].pc = "getList"
  /\ calls[c].kind = "unsubscribe"
  /\ calls' = [calls EXCEPT ![c].cur = unsubscribedEmails,
                            ![c].pc = AfterGetList(unsubscribedEmails, calls[c].recipientEmail)]
  /\ UNCHANGED <<kvTestMode, now, listVars, suppressionVars, trackingVars, page,
                 composerVars, extVars>>

\* await kv.set(unsubscribedKey, [...currentUnsubscribed, recipientEmail])
recordUnsubscribeSetList(c) ==
  /\ calls[c].pc = "setList"
  /\ unsubscribedEmails' = Append(calls[c].cur, calls[c].recipientEmail)
  /\ calls' = [calls EXCEPT ![c].pc = "getEvents", ![c].cur = <<>>]
  /\ page' = PageEffect(page, unsubscribedEmails')
  /\ UNCHANGED <<kvTestMode, now, listVars, completedUnsubscribes, trackingVars,
                 composerVars, extVars>>

\* await kv.get(unsubscribesKey) || []
recordUnsubscribeGetEvents(c) ==
  /\ calls[c].pc = "getEvents"
  /\ calls' = [calls EXCEPT ![c].cur = emailUnsubscribes[calls[c].emailId],
                            ![c].pc = "setEvents"]
  /\ UNCHANGED <<kvTestMode, now, listVars, suppressionVars, trackingVars, page,
                 composerVars, extVars>>

UnsubscribeTracking(call) ==
  [emailId |-> call.emailId, recipientEmail |-> call.recipientEmail,
   unsubscribedAt |-> call.at]

\* await kv.set(unsubscribesKey, [...existingUnsubscribes, tracking]); the
\* promise resolves here: a direct call is over, a call made by
\* UnsubscribePage.handleUnsubscribe is "done" until the handler resumes
recordUnsubscribeSetEvents(c) ==
  /\ calls[c].pc = "setEvents"
  /\ emailUnsubscribes' =
       [emailUnsubscribes EXCEPT ![calls[c].emailId] =
          Append(calls[c].cur, UnsubscribeTracking(calls[c]))]
  /\ calls' = [calls EXCEPT ![c] =
                 IF calls[c].caller \in {"page", "handler"}
                 THEN [calls[c] EXCEPT !.pc = "done", !.cur = <<>>]
                 ELSE IdleCall]
  /\ completedUnsubscribes' =
       IF calls[c].removed THEN completedUnsubscribes
       ELSE completedUnsubscribes \cup {calls[c].recipientEmail}
  /\ UNCHANGED <<kvTestMode, now, listVars, unsubscribedEmails, emailOpens,
                 trackingRecords, completedOpens, page,
                 composerVars, extVars>>

\* -------------------------------------------------------------- recordEmailOpen
StartedOpen(emailId, e) ==
  [pc |-> "setTracking", kind |-> "open", emailId |-> emailId,
   recipientEmail |-> e, at |-> now, cur |-> <<>>, caller |-> "direct",
   removed |-> FALSE]

\* TrackingHandler (action 'open') / handleTrackingPixel calling
\* recordEmailOpen(emailId, recipientEmail): runs up to the first await
recordEmailOpenCall(c, emailId, e) ==
  /\ kvTestMode
  /\ FreeCall(c)
  /\ calls' = [calls EXCEPT ![c] = StartedOpen(emailId, e)]
  /\ now' = now + 1
  /\ UNCHANGED <<kvTestMode, listVars, suppressionVars, trackingVars, page, composerVars,
                 extVars>>

OpenTracking(call) ==
  [emailId |-> call.emailId, recipientEmail |-> call.recipientEmail,
   openedAt |-> call.at]

\* generateTrackingId: btoa(`${emailId}:${recipientEmail}:${Date.now()}`) cut to
\* 16 characters, i.e. the first 12 bytes of that string; the ids, addresses
\* and clock values used here are short enough for the whole string to fit
generateTrackingId(emailId, recipientEmail, t) == <<emailId, recipientEmail, t>>

\* await kv.set(`tracking:${trackingId}`, tracking)
recordEmailOpenSetTracking(c) ==
  /\ calls[c].pc = "setTracking"
  /\ trackingRecords' =
       {r \in trackingRecords :
          r.key # generateTrackingId(calls[c].emailId, calls[c].recipientEmail, calls[c].at)}
       \cup {[key |-> generateTrackingId(calls[c].emailId, calls[c].recipientEmail,
                                         calls[c].at),
              value |-> OpenTracking(calls[c])]}
  /\ calls' = [calls EXCEPT ![c].pc = "getOpens"]
  /\ UNCHANGED <<kvTestMode, now, listVars, suppressionVars, emailUnsubscribes,
                 emailOpens, completedOpens, page, composerVars, extVars>>

\* existingOpens.some(open => open.recipientEmail === recipientEmail)
alreadyOpened(existingOpens, recipientEmail) ==
  \E i \in 1..Len(existingOpens) : existingOpens[i].recipientEmail = recipientEmail

\* history: the call c for (emailId, recipientEmail) has completed
WithCompletedOpen(c) ==
  [completedOpens EXCEPT ![calls[c].emailId] = Append(@, calls[c].recipientEmail)]

\* await kv.get(opensKey) || []; when the recipient is already in the list
\* the function returns without writing
recordEmailOpenGetOpens(c) ==
  /\ calls[c].pc = "getOpens"
  /\ IF alreadyOpened(emailOpens[calls[c].emailId], calls[c].recipientEmail)
     THEN /\ calls' = [calls EXCEPT ![c] = IdleCall]
          /\ completedOpens' = WithCompletedOpen(c)
     ELSE /\ calls' = [calls EXCEPT ![c].cur = emailOpens[calls[c].emailId],
                                    ![c].pc = "setOpens"]
          /\ UNCHANGED completedOpens
  /\ UNCHANGED <<kvTestMode, now, listVars, suppressionVars, emailUnsubscribes,
                 emailOpens, trackingRecords, page, composerVars, extVars>>

\* await kv.set(opensKey, [...existingOpens, tracking])
recordEmailOpenSetOpens(c) ==
  /\ calls[c].pc = "setOpens"
  /\ emailOpens' = [emailOpens EXCEPT ![calls[c].emailId] =
                      Append(calls[c].cur, OpenTracking(calls[c]))]
  /\ calls' = [calls EXCEPT ![c] = IdleCall]
  /\ completedOpens' = WithCompletedOpen(c)
  /\ UNCHANGED <<kvTestMode, now, listVars, suppressionVars, emailUnsubscribes,
                 trackingRecords, page, composerVars, extVars>>

\* --------------------------------------------------------------- getEmailMetrics
\* faulty variant: the first open stored for the recipient of opens[i]
FirstOpen(opens, i) ==
  CHOOSE k \in 1..Len(opens) :
    /\ opens[k].recipientEmail = opens[i].recipientEmail
    /\ \A j \in 1..(k - 1) : opens[j].recipientEmail # opens[i].recipientEmail

\* the entry uniqueOpensMap ends with for the recipient of opens[i]: the first
\* open of that recipient with the least openedAt
EarliestOpen(opens, i) ==
  CHOOSE k \in 1..Len(opens) :
    /\ opens[k].recipientEmail = opens[i].recipientEmail
    /\ \A j \in 1..Len(opens) :
         opens[j].recipientEmail = opens[i].recipientEmail
           => \/ opens[k].openedAt < opens[j].openedAt
              \/ (opens[k].openedAt = opens[j].openedAt /\ k <= j)

\* Array.from(uniqueOpensMap.values()): one entry per recipient, in the order
\* in which the recipients first occur
RECURSIVE UniqueOpensFrom(_, _)
UniqueOpensFrom(opens, i) ==
  IF i > Len(opens) THEN <<>>
  ELSE (IF \E j \in 1..(i - 1) : opens[j].recipientEmail = opens[i].recipientEmail
        THEN <<>> ELSE <<opens[EarliestOpen(opens, i)]>>)
       \o UniqueOpensFrom(opens, i + 1)

\* faulty variant: the division made whatever totalSent is
RateUnguarded(count, totalSent) == [num |-> count * 100, den |-> totalSent]

\* count / totalSent * 100, kept as a fraction; 0 when totalSent is 0
Rate(count, totalSent) ==
  IF totalSent > 0 THEN [num |-> count * 100, den |-> totalSent]
  ELSE [num |-> 0, den |-> 1]

\* the record getEmailMetrics returns when the two kv.get calls gave opens
\* and unsubscribes
EmailMetrics(emailId, totalSent, opens, unsubscribes) ==
  LET uniqueOpens == UniqueOpensFrom(opens, 1)
  IN [emailId |-> emailId, totalSent |-> totalSent,
      totalOpened |-> Len(opens), totalUnsubscribed |-> Len(unsubscribes),
      openRate |-> Rate(Len(opens), totalSent),
      uniqueOpenRate |-> Rate(Len(uniqueOpens), totalSent),
      unsubscribeRate |-> Rate(Len(unsubscribes), totalSent),
      opens |-> opens, uniqueOpens |-> uniqueOpens, unsubscribes |-> unsubscribes]

getEmailMetrics(emailId, totalSent) ==
  EmailMetrics(emailId, totalSent,
               IF kvTestMode THEN emailOpens[emailId] ELSE <<>>,
               IF kvTestMode THEN emailUnsubscribes[emailId] ELSE <<>>)

\* getEmailMetrics(emailId, totalSent) with the store holding opens and
\* unsubscribes under the two keys of emailId
getEmailMetricsCall(emailId, totalSent, opens, unsubscribes) ==
  /\ ~metricsCall.called
  /\ metricsCall' =
       [called |-> TRUE, totalSent |-> totalSent,
        opens |-> IF kvTestMode THEN opens ELSE <<>>,
        unsubscribes |-> IF kvTestMode THEN unsubscribes ELSE <<>>,
        result |-> EmailMetrics(emailId, totalSent,
                                IF kvTestMode THEN opens ELSE <<>>,
                                IF kvTestMode THEN unsubscribes ELSE <<>>)]
  /\ UNCHANGED <<kvTestMode, now, listVars, suppressionVars, trackingVars, calls,
                 page, composerVars, contactToast, otherForm, ioVars, sessionVars,
                 storeVars, pendingDeletes, deleteCalls, deletedOnBackend,
                 contactListing, csvParsed, inferredTenant>>

\* ------------------------------------------------------------------- Settings
\* kvUnsubscribedEmails.some(email => email.toLowerCase() === rawInput.toLowerCase())
AlreadyInUnsubscribeList(list, rawInput) ==
  \E i \in 1..Len(list) : ToLowerCase(list[i]) = ToLowerCase(rawInput)

\* faulty variant: suppression implemented by deleting the contact from the lists
addUnsubscribeEmailDeletingContacts(input) ==
  LET rawInput == Trim(input) IN
  /\ kvTestMode
  /\ Len(unsubscribedEmails) < MaxUnsub
  /\ rawInput # <<>>
  /\ EMAIL_REGEX(rawInput)
  /\ ~AlreadyInUnsubscribeList(unsubscribedEmails, rawInput)
  /\ unsubscribedEmails' = Append(unsubscribedEmails, rawInput)
  /\ page' = PageEffect(page, unsubscribedEmails')
  /\ distributionLists' =
       [i \in 1..Len(distributionLists) |->
          [distributionLists[i] EXCEPT !.contacts =
             SelectSeq(@, LAMBDA contact : contact.email # rawInput)]]
  /\ UNCHANGED <<kvTestMode, now, apiDistributionLists, pendingAdds, importVars,
                 completedUnsubscribes, trackingVars, calls, composerVars,
                 extVars>>

\* Settings.addUnsubscribeEmail, KV mode
addUnsubscribeEmail(input) ==
  LET rawInput == Trim(input) IN
  /\ kvTestMode
  /\ Len(unsubscribedEmails) < MaxUnsub
  /\ rawInput # <<>>
  /\ EMAIL_REGEX(rawInput)
  /\ ~AlreadyInUnsubscribeList(unsubscribedEmails, rawInput)
  /\ unsubscribedEmails' = Append(unsubscribedEmails, rawInput)
  /\ page' = PageEffect(page, unsubscribedEmails')
  /\ UNCHANGED <<kvTestMode, now, listVars, completedUnsubscribes, trackingVars,
                 calls, composerVars, extVars>>

\* Settings.removeUnsubscribeEmail, KV mode; the entry is a displayed row
removeUnsubscribeEmail(email) ==
  /\ kvTestMode
  /\ Includes(unsubscribedEmails, email)
  /\ unsubscribedEmails' = FilterOut(unsubscribedEmails, email)
  /\ completedUnsubscribes' = completedUnsubscribes \ {email}
  /\ calls' = MarkRemoved(calls, email)
  /\ page' = PageEffect(page, unsubscribedEmails')
  /\ UNCHANGED <<kvTestMode, now, listVars, trackingVars, composerVars, extVars>>

\* ------------------------------------------------------------ UnsubscribePage
ErrEnterEmail == "Please enter your email address"
ErrInvalidEmail == "Please enter a valid email address"
ErrRetry == "An error occurred while processing your request. Please try again."

\* onChange of the email input (shown in the form view, disabled while loading)
setEmail(e) ==
  /\ page.pc = "idle"
  /\ ~page.isUnsubscribed
  /\ page.email # e
  /\ page' = PageEffect([page EXCEPT !.email = e], unsubscribedEmails)
  /\ UNCHANGED <<kvTestMode, now, listVars, suppressionVars, trackingVars, calls,
                 composerVars, extVars>>

\* handleUnsubscribe: validation failures
handleUnsubscribeInvalid ==
  /\ page.pc = "idle"
  /\ ~page.isUnsubscribed
  /\ \/ /\ page.email = <<>>
        /\ page' = [page EXCEPT !.error = ErrEnterEmail]
     \/ /\ page.email # <<>>
        /\ ~EMAIL_REGEX(page.email)
        /\ page' = [page EXCEPT !.error = ErrInvalidEmail]
  /\ UNCHANGED <<kvTestMode, now, listVars, suppressionVars, trackingVars, calls,
                 composerVars, extVars>>

\* [...currentUnsubscribed, email] unless currentUnsubscribed.includes(email)
WithEmail(list, email) == IF Includes(list, email) THEN list ELSE Append(list, email)

\* handleUnsubscribe up to its first await (or to its end when nothing is awaited)
handleUnsubscribe ==
  LET cur == PageList(page, unsubscribedEmails)
      next == WithEmail(cur, page.email)
      loading == [page EXCEPT !.isLoading = TRUE, !.error = ""]
  IN
  /\ page.pc = "idle"
  /\ ~page.isUnsubscribed
  /\ page.email # <<>>
  /\ EMAIL_REGEX(page.email)
  /\ Len(cur) < MaxUnsub
  /\ IF kvTestMode
     THEN /\ unsubscribedEmails' = next
          /\ IF page.trackingId # None
             THEN \E c \in CallIds :
                    /\ FreeCall(c)
                    /\ calls' = [calls EXCEPT ![c] =
                                   StartedUnsubscribe(page.trackingId, page.email, "page")]
                    /\ now' = now + 1
                    /\ page' = PageEffect([loading EXCEPT !.pc = "awaitRecord"], next)
             ELSE /\ page' = [loading EXCEPT !.isUnsubscribed = TRUE, !.isLoading = FALSE]
                  /\ UNCHANGED <<calls, now>>
     ELSE /\ page' = PageEffect([loading EXCEPT !.unsubscribedEmails = next,
                                                !.pc = "awaitApi"], unsubscribedEmails)
          /\ UNCHANGED <<unsubscribedEmails, calls, now>>
  /\ UNCHANGED <<kvTestMode, listVars, completedUnsubscribes, trackingVars, composerVars,
                 extVars>>

\* KV mode: await recordUnsubscribe(trackingId, email) has resolved
handleUnsubscribeRecorded ==
  /\ page.pc = "awaitRecord"
  /\ \E c \in CallIds :
       /\ calls[c].caller = "page"
       /\ calls[c].pc = "done"
       /\ calls' = [calls EXCEPT ![c] = IdleCall]
  /\ page' = [page EXCEPT !.isUnsubscribed = TRUE, !.isLoading = FALSE, !.pc = "idle"]
  /\ UNCHANGED <<kvTestMode, now, listVars, suppressionVars, trackingVars, composerVars,
                 extVars>>

\* API mode: apiClient.recordUnsubscribeEvent / addUnsubscribe has resolved
handleUnsubscribeResolved ==
  /\ page.pc = "awaitApi"
  /\ page' = [page EXCEPT !.isUnsubscribed = TRUE, !.isLoading = FALSE, !.pc = "idle"]
  /\ UNCHANGED <<kvTestMode, now, listVars, suppressionVars, trackingVars, calls,
                 composerVars, extVars>>

\* API mode: apiClient.recordUnsubscribeEvent / addUnsubscribe has rejected
handleUnsubscribeRejected ==
  /\ page.pc = "awaitApi"
  /\ page' = [page EXCEPT !.error = ErrRetry, !.isLoading = FALSE, !.pc = "idle"]
  /\ UNCHANGED <<kvTestMode, now, listVars, suppressionVars, trackingVars, calls,
                 composerVars, extVars>>

\* handleResubscribe up to its await (KV mode: to its end)
handleResubscribe ==
  LET updatedList == FilterOut(PageList(page, unsubscribedEmails), page.email) IN
  /\ page.pc = "idle"
  /\ page.isUnsubscribed
  /\ page.email # <<>>
  /\ IF kvTestMode
     THEN /\ unsubscribedEmails' = updatedList
          /\ page' = [page EXCEPT !.isUnsubscribed = FALSE, !.isLoading = FALSE]
     ELSE /\ page' = [page EXCEPT !.unsubscribedEmails = updatedList,
                                  !.isLoading = TRUE, !.pc = "awaitDelete"]
          /\ UNCHANGED unsubscribedEmails
  /\ completedUnsubscribes' = completedUnsubscribes \ {page.email}
  /\ calls' = MarkRemoved(calls, page.email)
  /\ UNCHANGED <<kvTestMode, now, listVars, trackingVars, composerVars, extVars>>

\* API mode: apiClient.deleteUnsubscribeByEmail has resolved or rejected
handleResubscribeSettled(ok) ==
  /\ page.pc = "awaitDelete"
  /\ page' = IF ok
             THEN [page EXCEPT !.isUnsubscribed = FALSE, !.isLoading = FALSE, !.pc = "idle"]
             ELSE [page EXCEPT !.error = ErrRetry, !.isLoading = FALSE, !.pc = "idle"]
  /\ UNCHANGED <<kvTestMode, now, listVars, suppressionVars, trackingVars, calls,
                 composerVars, extVars>>

\* ---------------------------------------------------------- DistributionLists
ListIndex(lists, listId) ==
  IF \E i \in 1..Len(lists) : lists[i].id = listId
  THEN CHOOSE i \in 1..Len(lists) :
         lists[i].id = listId /\ \A j \in 1..(i - 1) : lists[j].id # listId
  ELSE 0

\* lists.map(list => list.id === listId
\*                   ? {...list, contacts: [...list.contacts, ...added]} : list)
WithContacts(lists, listId, added) ==
  [i \in 1..Len(lists) |->
     IF lists[i].id = listId
     THEN [lists[i] EXCEPT !.contacts = lists[i].contacts \o added]
     ELSE lists[i]]

\* faulty variant: the stored email compared as it is
HasDuplicateExact(contacts, normalizedEmail) ==
  \E i \in 1..Len(contacts) : contacts[i].email = normalizedEmail

\* contacts.some(contact => contact.email.trim().toLowerCase() === normalizedEmail)
HasDuplicate(contacts, normalizedEmail) ==
  \E i \in 1..Len(contacts) : NormalizeEmail(contacts[i].email) = normalizedEmail

\* createList: KV mode appends at once; in API mode the list is appended by
\* the .then callback of createDistributionList (a functional update)
createList(name) ==
  /\ Trim(name) # <<>>
  /\ Len(distributionLists) < MaxLists
  /\ distributionLists' = Append(distributionLists,
                                 [id |-> now, name |-> name, contacts |-> <<>>])
  /\ now' = now + 1
  /\ UNCHANGED <<kvTestMode, apiDistributionLists, pendingAdds, importVars,
                 suppressionVars, trackingVars, calls, page, composerVars,
                 extVars>>

NewContact(id, email, firstName, lastName, addedAt) ==
  [id |-> id, email |-> email, firstName |-> firstName, lastName |-> lastName,
   addedAt |-> addedAt]

\* (currentLists || []).filter(list => list.id !== listId)
\* faulty variant: an id that is not stored removes the last list
WithoutListOrLast(lists, listId) ==
  IF \E i \in 1..Len(lists) : lists[i].id = listId
  THEN SelectSeq(lists, LAMBDA list : list.id # listId)
  ELSE SubSeq(lists, 1, Len(lists) - 1)

WithoutList(lists, listId) == SelectSeq(lists, LAMBDA list : list.id # listId)

\* lists.map(list => list.id === listId ? { ...list, contacts: filter } : list)
WithoutContact(lists, listId, contactId) ==
  [i \in 1..Len(lists) |->
     IF lists[i].id = listId
     THEN [lists[i] EXCEPT !.contacts = SelectSeq(@, LAMBDA c : c.id # contactId)]
     ELSE lists[i]]

\* history: the latest two deleteList calls, each with the number of contacts
\* of the list it found (0 when the id was not stored)
LoggedDelete(listId) ==
  (IF Len(deleteCalls) = 2 THEN Tail(deleteCalls) ELSE deleteCalls)
    \o <<[listId |-> listId,
          contacts |-> IF ListIndex(distributionLists, listId) = 0 THEN 0
                       ELSE Len(distributionLists[ListIndex(distributionLists, listId)].contacts)]>>

\* deleteList: KV mode filters the list out; API mode filters it out at once,
\* keeps the lists of the current render in prev and calls the backend
deleteList(listId) ==
  /\ distributionLists' = WithoutList(distributionLists, listId)
  /\ pendingDeletes' =
       IF kvTestMode THEN pendingDeletes
       ELSE pendingDeletes \cup {[kind |-> "list", id |-> listId,
                                  prev |-> distributionLists]}
  /\ deleteCalls' = LoggedDelete(listId)
  /\ UNCHANGED <<kvTestMode, now, apiDistributionLists, pendingAdds, importVars,
                 suppressionVars, trackingVars, calls, page, composerVars,
                 contactToast, otherForm, ioVars, sessionVars, storeVars,
                 deletedOnBackend, contactListing, csvParsed, metricsCall,
                 inferredTenant>>

\* removeContact: as deleteList, for one contact of a list
removeContact(listId, contactId) ==
  /\ distributionLists' = WithoutContact(distributionLists, listId, contactId)
  /\ pendingDeletes' =
       IF kvTestMode THEN pendingDeletes
       ELSE pendingDeletes \cup {[kind |-> "contact", id |-> contactId,
                                  prev |-> distributionLists]}
  /\ UNCHANGED <<kvTestMode, now, apiDistributionLists, pendingAdds, importVars,
                 suppressionVars, trackingVars, calls, page, composerVars,
                 contactToast, otherForm, ioVars, sessionVars, storeVars,
                 deleteCalls, deletedOnBackend, contactListing, csvParsed,
                 metricsCall, inferredTenant>>

\* apiClient.deleteDistributionList / deleteContact settles: .then only shows a
\* toast, .catch runs setDistributionLists(() => prev || [])
deleteSettled(req, ok) ==
  /\ req \in pendingDeletes
  /\ pendingDeletes' = pendingDeletes \ {req}
  /\ IF ok
     THEN /\ deletedOnBackend' =
               IF req.kind = "list" THEN deletedOnBackend \cup {req.id}
               ELSE deletedOnBackend
          /\ UNCHANGED distributionLists
     ELSE /\ distributionLists' = req.prev
          /\ UNCHANGED deletedOnBackend
  /\ UNCHANGED <<kvTestMode, now, apiDistributionLists, pendingAdds, importVars,
                 suppressionVars, trackingVars, calls, page, composerVars,
                 contactToast, otherForm, ioVars, sessionVars, storeVars,
                 deleteCalls, contactListing, csvParsed, metricsCall,
                 inferredTenant>>

\* the toasts of addContact
ErrFillFields == "Please fill in all contact fields"
ErrValidEmail == "Please enter a valid email address"
ErrNoList == "Unable to find distribution list"
ErrDuplicateEmail == "Email address already exists in this list"
ErrAddFailed == "Add contact failed"
ContactAdded == "Contact added"

\* the toast.error with which addContact returns early, None when it goes on
addContactError(listId, email, firstName, lastName) ==
  IF Trim(email) = <<>> \/ Trim(firstName) = <<>> \/ Trim(lastName) = <<>>
  THEN ErrFillFields
  ELSE IF ~EMAIL_REGEX(email) THEN ErrValidEmail
  ELSE IF ListIndex(distributionLists, listId) = 0 THEN ErrNoList
  ELSE IF HasDuplicate(distributionLists[ListIndex(distributionLists, listId)].contacts,
                       NormalizeEmail(email))
       THEN ErrDuplicateEmail
       ELSE None

\* addContact(listId) with the form fields email, firstName, lastName
addContact(listId, email, firstName, lastName) ==
  /\ \E error \in {addContactError(listId, email, firstName, lastName)} :
       IF error # None
       THEN /\ contactToast' = error
            /\ UNCHANGED <<distributionLists, pendingAdds, now>>
       ELSE /\ Len(distributionLists[ListIndex(distributionLists, listId)].contacts)
                 < MaxContacts
            /\ contactToast' = ContactAdded
            /\ IF kvTestMode
               THEN /\ distributionLists' =
                         WithContacts(distributionLists, listId,
                                      <<NewContact(now, email, firstName, lastName, now)>>)
                    /\ now' = now + 1
                    /\ UNCHANGED pendingAdds
               ELSE /\ pendingAdds = {}
                    /\ pendingAdds' = {[listId |-> listId, email |-> email,
                                        firstName |-> firstName, lastName |-> lastName]}
                    /\ UNCHANGED <<distributionLists, now>>
  /\ UNCHANGED <<kvTestMode, apiDistributionLists, importVars, suppressionVars,
                 trackingVars, calls, page, composerVars, otherForm, ioVars,
                 sessionVars, storeVars, auxVars>>

\* API mode: apiClient.addContact settles; .then appends the returned contact
\* (taken to carry the fields of the request), .catch shows an error toast
addContactSettled(req, ok) ==
  /\ req \in pendingAdds
  /\ pendingAdds' = pendingAdds \ {req}
  /\ IF ok
     THEN /\ distributionLists' =
               WithContacts(distributionLists, req.listId,
                            <<NewContact(now, req.email, req.firstName, req.lastName, now)>>)
          /\ now' = now + 1
          /\ UNCHANGED contactToast
     ELSE /\ contactToast' = ErrAddFailed
          /\ UNCHANGED <<distributionLists, now>>
  /\ UNCHANGED <<kvTestMode, apiDistributionLists, importVars, suppressionVars,
                 trackingVars, calls, page, composerVars, otherForm, ioVars,
                 sessionVars, storeVars, auxVars>>

\* contacts.filter(contact => !(unsubscribedEmails || []).includes(contact.email))
getActiveContacts(contacts, unsubscribed) ==
  SelectSeq(contacts, LAMBDA contact : ~Includes(unsubscribed, contact.email))

\* ------------------------------------------------------------ contact listing
CONTACTS_PER_PAGE == 200

\* the characters of the sort keys in the order of their UTF-16 code units
CharOrder ==
  <<" ", ".", "@", "a", "b", "c", "d", "e", "f", "g", "h", "i", "j", "k", "l", "m",
    "n", "o", "p", "q", "r", "s", "t", "u", "v", "w", "x", "y", "z">>
CodeUnit(ch) == CHOOSE i \in 1..Len(CharOrder) : CharOrder[i] = ch
CodeUnits(s) == [i \in 1..Len(s) |-> CodeUnit(s[i])]

\* a < b for two strings, each given by its code units
RECURSIVE StringLess(_, _)
StringLess(a, b) ==
  IF b = <<>> THEN FALSE
  ELSE IF a = <<>> THEN TRUE
  ELSE IF Head(a) = Head(b) THEN StringLess(Tail(a), Tail(b))
  ELSE Head(a) < Head(b)

\* aValue / bValue of the comparator for the sort field
SortValue(field, contact) ==
  IF field = "name"
  THEN CodeUnits(ToLowerCase(Trim(contact.firstName \o <<" ">> \o contact.lastName)))
  ELSE IF field = "email" THEN CodeUnits(ToLowerCase(contact.email))
  ELSE contact.addedAt

ValueLess(field, a, b) ==
  IF field \in {"name", "email"} THEN StringLess(a, b) ELSE a < b

\* the comparator of sortContacts on two sort values
CompareValues(sort, a, b) ==
  IF ValueLess(sort.field, a, b) THEN (IF sort.direction = "asc" THEN -1 ELSE 1)
  ELSE IF ValueLess(sort.field, b, a) THEN (IF sort.direction = "asc" THEN 1 ELSE -1)
  ELSE 0

\* [...contacts].sort(comparator): Array.prototype.sort is stable, so the place
\* of a contact is after those that compare lower and those that compare
\* equal and stand before it
SortPlaces(sort, values) ==
  [i \in DOMAIN values |->
     1 + Cardinality({j \in DOMAIN values :
           \A c \in {CompareValues(sort, values[j], values[i])} :
             c < 0 \/ (c = 0 /\ j < i)})]

sortContacts(sort, contacts) ==
  CHOOSE sorted \in
    UNION {{[k \in DOMAIN contacts |-> contacts[CHOOSE i \in DOMAIN contacts : place[i] = k]] :
              place \in {SortPlaces(sort, values)}} :
             values \in {[i \in DOMAIN contacts |-> SortValue(sort.field, contacts[i])]}} :
    TRUE

CeilDiv(a, b) == (a + b - 1) \div b
Min2(a, b) == IF a < b THEN a ELSE b
Max2(a, b) == IF a > b THEN a ELSE b

\* Math.max(1, Math.ceil(totalContacts / CONTACTS_PER_PAGE))
TotalPages(totalContacts) == Max2(1, CeilDiv(totalContacts, CONTACTS_PER_PAGE))

\* faulty variant: the stored page used as it is
CurrentPageUnclamped(stored, totalPages) == IF stored = 0 THEN 1 ELSE stored

\* Math.min(pageState[list.id] || 1, totalPages); stored is 0 for no entry
CurrentPage(stored, totalPages) == Min2(IF stored = 0 THEN 1 ELSE stored, totalPages)

\* sortedContacts.slice(pageStart, pageEnd) for page currentPage
PagedContacts(sortedContacts, currentPage) ==
  LET pageStart == (currentPage - 1) * CONTACTS_PER_PAGE
      pageEnd == pageStart + CONTACTS_PER_PAGE
  IN SubSeq(sortedContacts, pageStart + 1, Min2(pageEnd, Len(sortedContacts)))

\* the render of one list card: what it shows for the stored sort and the
\* page number stored in pageState (0 for no entry), and what each page it
\* offers would show
renderList(contacts, unsubscribed, sort) ==
  /\ ~contactListing.called
  /\ \E activeContacts \in {getActiveContacts(contacts, unsubscribed)} :
     \E sortedContacts \in {sortContacts(sort, activeContacts)} :
     \E totalPages \in {TotalPages(Len(sortedContacts))} :
     \E stored \in 0..MaxStoredPage :
       contactListing' =
         [called |-> TRUE, contacts |-> contacts, unsubscribed |-> unsubscribed,
          sort |-> sort, stored |-> stored,
          sortedContacts |-> sortedContacts, totalPages |-> totalPages,
          currentPage |-> CurrentPage(stored, totalPages),
          pages |-> [p \in 1..totalPages |-> PagedContacts(sortedContacts, p)]]
  /\ UNCHANGED <<kvTestMode, now, listVars, suppressionVars, trackingVars, calls,
                 page, composerVars, contactToast, otherForm, ioVars, sessionVars,
                 storeVars, pendingDeletes, deleteCalls, deletedOnBackend,
                 csvParsed, metricsCall, inferredTenant>>

\* ------------------------------------------------------------------ CSV import
\* s.split(sep) for a one-character separator
RECURSIVE SplitOn(_, _)
SplitOn(s, sep) ==
  IF \E i \in 1..Len(s) : s[i] = sep
  THEN LET i == CHOOSE k \in 1..Len(s) : s[k] = sep /\ \A j \in 1..(k - 1) : s[j] # sep
       IN <<SubSeq(s, 1, i - 1)>> \o SplitOn(SubSeq(s, i + 1, Len(s)), sep)
  ELSE <<s>>

\* a "\r" right before a "\n" is part of the separator /\r?\n/
DropCr(line) ==
  IF line # <<>> /\ line[Len(line)] = "\r" THEN SubSeq(line, 1, Len(line) - 1) ELSE line

\* csvContent.split(/\r?\n/).filter(line => line.trim().length > 0)
SplitLines(csvContent) ==
  LET parts == SplitOn(csvContent, "\n")
      lines == [i \in 1..Len(parts) |-> IF i < Len(parts) THEN DropCr(parts[i]) ELSE parts[i]]
  IN SelectSeq(lines, LAMBDA line : Trim(line) # <<>>)

\* headers.indexOf(name), counted from 1; 0 when absent
IndexOf(list, x) ==
  IF Includes(list, x)
  THEN CHOOSE i \in 1..Len(list) : list[i] = x /\ \A j \in 1..(i - 1) : list[j] # x
  ELSE 0

\* columns[index] || ''
Column(columns, index) == IF index <= Len(columns) THEN columns[index] ELSE <<>>

HeaderFirstName == <<"f", "i", "r", "s", "t", "n", "a", "m", "e">>
HeaderLastName == <<"l", "a", "s", "t", "n", "a", "m", "e">>
HeaderEmail == <<"e", "m", "a", "i", "l">>
CSV_REQUIRED_HEADERS == <<HeaderFirstName, HeaderLastName, HeaderEmail>>

\* faulty variant: the columns are read by position, whatever the header says
parseCsvContactsPositional(csvContent) ==
  LET lines == SplitLines(csvContent)
      headerCols == IF lines = <<>> THEN <<>> ELSE SplitOn(lines[1], ",")
      headers == [i \in 1..Len(headerCols) |-> ToLowerCase(Trim(headerCols[i]))]
      Row(line) ==
        LET cols == SplitOn(line, ",")
            columns == [i \in 1..Len(cols) |-> Trim(cols[i])]
        IN [firstName |-> Column(columns, 1),
            lastName |-> Column(columns, 2),
            email |-> Column(columns, 3)]
  IN IF lines = <<>> THEN [ok |-> TRUE, contacts |-> <<>>]
     ELSE IF \E i \in 1..Len(CSV_REQUIRED_HEADERS) :
               IndexOf(headers, CSV_REQUIRED_HEADERS[i]) = 0
          THEN [ok |-> FALSE, contacts |-> <<>>]
          ELSE [ok |-> TRUE,
                contacts |-> [i \in 1..(Len(lines) - 1) |-> Row(lines[i + 1])]]

\* parseCsvContacts: ok is FALSE when it throws for missing headers
parseCsvContacts(csvContent) ==
  LET lines == SplitLines(csvContent)
      headerCols == IF lines = <<>> THEN <<>> ELSE SplitOn(lines[1], ",")
      headers == [i \in 1..Len(headerCols) |-> ToLowerCase(Trim(headerCols[i]))]
      firstname == IndexOf(headers, HeaderFirstName)
      lastname == IndexOf(headers, HeaderLastName)
      email == IndexOf(headers, HeaderEmail)
      Row(line) ==
        LET cols == SplitOn(line, ",")
            columns == [i \in 1..Len(cols) |-> Trim(cols[i])]
        IN [firstName |-> Column(columns, firstname),
            lastName |-> Column(columns, lastname),
            email |-> Column(columns, email)]
  IN IF lines = <<>> THEN [ok |-> TRUE, contacts |-> <<>>]
     ELSE IF \E i \in 1..Len(CSV_REQUIRED_HEADERS) :
               IndexOf(headers, CSV_REQUIRED_HEADERS[i]) = 0
          THEN [ok |-> FALSE, contacts |-> <<>>]
          ELSE [ok |-> TRUE,
                contacts |-> [i \in 1..(Len(lines) - 1) |-> Row(lines[i + 1])]]

\* !firstName.trim() || !lastName.trim() || !EMAIL_REGEX.test(email)
IsInvalidRow(row) ==
  Trim(row.firstName) = <<>> \/ Trim(row.lastName) = <<>> \/ ~EMAIL_REGEX(row.email)

\* faulty variant: the duplicate test made before the validity test
ClassifyRowDuplicatesFirst(row, existingEmails, seenInImport) ==
  IF NormalizeEmail(row.email) \in existingEmails \cup seenInImport THEN "duplicate"
  ELSE IF IsInvalidRow(row) THEN "invalid"
  ELSE "valid"

\* the body of parsed.forEach: which of the three outcomes a row gets
ClassifyRow(row, existingEmails, seenInImport) ==
  IF IsInvalidRow(row) THEN "invalid"
  ELSE IF NormalizeEmail(row.email) \in existingEmails \cup seenInImport THEN "duplicate"
  ELSE "valid"

NoEntries == [validEntries |-> <<>>, skippedInvalid |-> 0, skippedDuplicates |-> 0]

\* parsed.forEach(...) from row i on
RECURSIVE ClassifyFrom(_, _, _, _, _)
ClassifyFrom(parsed, i, existingEmails, seenInImport, acc) ==
  IF i > Len(parsed) THEN acc
  ELSE LET row == parsed[i]
           kind == ClassifyRow(row, existingEmails, seenInImport)
       IN IF kind = "invalid"
          THEN ClassifyFrom(parsed, i + 1, existingEmails, seenInImport,
                            [acc EXCEPT !.skippedInvalid = @ + 1])
          ELSE IF kind = "duplicate"
          THEN ClassifyFrom(parsed, i + 1, existingEmails, seenInImport,
                            [acc EXCEPT !.skippedDuplicates = @ + 1])
          ELSE ClassifyFrom(parsed, i + 1, existingEmails,
                            seenInImport \cup {NormalizeEmail(row.email)},
                            [acc EXCEPT !.validEntries =
                               Append(@, [firstName |-> Trim(row.firstName),
                                          lastName |-> Trim(row.lastName),
                                          email |-> Trim(row.email)])])

\* new Set(targetList.contacts.map(contact => contact.email.trim().toLowerCase()))
ExistingEmails(contacts) == {NormalizeEmail(contacts[i].email) : i \in 1..Len(contacts)}

\* setX(prev => ({...prev, [key]: value})) and the removal of a key
Put(f, key, value) == [x \in DOMAIN f \cup {key} |-> IF x = key THEN value ELSE f[x]]
Drop(f, key) == [x \in DOMAIN f \ {key} |-> f[x]]

\* crypto.randomUUID() / the id the backend assigns: unique per import and entry
ImportedId(startedAt, index) == 100 + 10 * startedAt + index

Max0(n) == IF n < 0 THEN 0 ELSE n

\* faulty variant: pending stays at the total
StatusStalePending(total, completed, skippedDuplicates, skippedInvalid) ==
  [total |-> total, completed |-> completed, pending |-> total,
   skippedDuplicates |-> skippedDuplicates, skippedInvalid |-> skippedInvalid]

\* the record setImportStatus stores for a list
Status(total, completed, skippedDuplicates, skippedInvalid) ==
  [total |-> total, completed |-> completed, pending |-> Max0(total - completed),
   skippedDuplicates |-> skippedDuplicates, skippedInvalid |-> skippedInvalid]

\* handleFileChange up to `await file.text()`: targetList is the list as the
\* handler finds it now; the import button is disabled while an import runs
handleFileChange(listId) ==
  LET idx == ListIndex(distributionLists, listId) IN
  /\ idx # 0
  /\ listId \notin importingLists
  /\ listId \notin DOMAIN imports
  /\ imports' = Put(imports, listId,
                    [pc |-> "reading", at |-> now,
                     targetList |-> distributionLists[idx].contacts,
                     validEntries |-> <<>>, idx |-> 0, addedContacts |-> <<>>,
                     failedAdds |-> 0])
  /\ importingLists' = importingLists \cup {listId}
  /\ now' = now + 1
  /\ UNCHANGED <<kvTestMode, distributionLists, apiDistributionLists, pendingAdds,
                 importStatus, lastImport, suppressionVars, trackingVars, calls,
                 page, composerVars, extVars>>

\* faulty variant: the catch block does not release the list
fileTextRejectedKeepingList(listId) ==
  /\ listId \in DOMAIN imports
  /\ imports[listId].pc = "reading"
  /\ imports' = Drop(imports, listId)
  /\ UNCHANGED <<kvTestMode, now, distributionLists, apiDistributionLists,
                 pendingAdds, importStatus, importingLists, lastImport,
                 suppressionVars, trackingVars, calls, page, composerVars, extVars>>

\* file.text() rejects: the catch block
fileTextRejected(listId) ==
  /\ listId \in DOMAIN imports
  /\ imports[listId].pc = "reading"
  /\ imports' = Drop(imports, listId)
  /\ importingLists' = importingLists \ {listId}
  /\ UNCHANGED <<kvTestMode, now, distributionLists, apiDistributionLists,
                 pendingAdds, importStatus, lastImport, suppressionVars,
                 trackingVars, calls, page, composerVars, extVars>>

\* the contacts the KV mode builds from validEntries
ImportedContacts(validEntries, startedAt, t) ==
  [i \in 1..Len(validEntries) |->
     NewContact(ImportedId(startedAt, i - 1), validEntries[i].email,
                validEntries[i].firstName, validEntries[i].lastName, t + i - 1)]

\* file.text() resolves with content: parse, classify, and in KV mode append;
\* in API mode the handler goes on to its first apiClient.addContact; probe is
\* the history record of what the file was made of
fileTextResolvedAs(listId, content, probe) ==
  /\ listId \in DOMAIN imports
  /\ imports[listId].pc = "reading"
  /\ \E result \in {parseCsvContacts(content)} :
     \E entries \in {ClassifyFrom(result.contacts, 1,
                                  ExistingEmails(imports[listId].targetList), {}, NoEntries)} :
     LET import == imports[listId]
         validEntries == entries.validEntries
         total == Len(validEntries)
     IN
     /\ lastImport' = [listId |-> listId, at |-> import.at, parsed |-> result.contacts]
     /\ IF ~result.ok \/ result.contacts = <<>>
        THEN /\ imports' = Drop(imports, listId)
             /\ importingLists' = importingLists \ {listId}
             /\ UNCHANGED <<distributionLists, importStatus>>
        ELSE IF validEntries = <<>>
        THEN /\ importStatus' = Put(importStatus, listId,
                                    Status(0, 0, entries.skippedDuplicates,
                                           entries.skippedInvalid))
             /\ imports' = Drop(imports, listId)
             /\ importingLists' = importingLists \ {listId}
             /\ UNCHANGED distributionLists
        ELSE IF kvTestMode
        THEN /\ distributionLists' =
                  WithContacts(distributionLists, listId,
                               ImportedContacts(validEntries, import.at, now))
             /\ importStatus' = Put(importStatus, listId,
                                    Status(total, total, entries.skippedDuplicates,
                                           entries.skippedInvalid))
             /\ imports' = Drop(imports, listId)
             /\ importingLists' = importingLists \ {listId}
        ELSE /\ importStatus' = Put(importStatus, listId,
                                    Status(total, 0, entries.skippedDuplicates,
                                           entries.skippedInvalid))
             /\ imports' = Put(imports, listId,
                               [import EXCEPT !.pc = "adding", !.idx = 1,
                                              !.validEntries = validEntries])
             /\ UNCHANGED <<distributionLists, importingLists>>
  /\ csvParsed' = probe
  /\ UNCHANGED <<kvTestMode, now, apiDistributionLists, pendingAdds, suppressionVars,
                 trackingVars, calls, page, composerVars, contactToast, otherForm,
                 ioVars, sessionVars, storeVars, pendingDeletes, deleteCalls,
                 deletedOnBackend, contactListing, metricsCall, inferredTenant>>

fileTextResolved(listId, content) == fileTextResolvedAs(listId, content, csvParsed)

\* API mode: the apiClient.addContact of the current entry settles; after the
\* last entry the handler appends the added contacts and finishes
importAddContactSettled(listId, ok) ==
  /\ listId \in DOMAIN imports
  /\ imports[listId].pc = "adding"
  /\ LET import == imports[listId]
         entry == import.validEntries[import.idx]
         addedContacts ==
           IF ok THEN Append(import.addedContacts,
                             NewContact(ImportedId(import.at, import.idx - 1),
                                        entry.email, entry.firstName, entry.lastName, now))
           ELSE import.addedContacts
         failedAdds == IF ok THEN import.failedAdds ELSE import.failedAdds + 1
         status == importStatus[listId]
         counted == IF ok THEN Status(status.total, status.completed + 1,
                                      status.skippedDuplicates, status.skippedInvalid)
                    ELSE status
     IN IF import.idx < Len(import.validEntries)
        THEN /\ imports' = Put(imports, listId,
                               [import EXCEPT !.idx = @ + 1,
                                              !.addedContacts = addedContacts,
                                              !.failedAdds = failedAdds])
             /\ importStatus' = Put(importStatus, listId, counted)
             /\ UNCHANGED <<distributionLists, importingLists>>
        ELSE /\ distributionLists' =
                  IF addedContacts # <<>>
                  THEN WithContacts(distributionLists, listId, addedContacts)
                  ELSE distributionLists
             /\ importStatus' = Put(importStatus, listId,
                                    Status(counted.total, counted.completed,
                                           counted.skippedDuplicates,
                                           counted.skippedInvalid))
             /\ imports' = Drop(imports, listId)
             /\ importingLists' = importingLists \ {listId}
  /\ UNCHANGED <<kvTestMode, now, apiDistributionLists, pendingAdds, lastImport,
                 suppressionVars, trackingVars, calls, page, composerVars,
                 extVars>>

\* the files offered to the import: a header line and up to MaxRows rows
RECURSIVE Join(_, _)
Join(parts, sep) ==
  IF parts = <<>> THEN <<>>
  ELSE IF Len(parts) = 1 THEN parts[1]
  ELSE parts[1] \o <<sep>> \o Join(Tail(parts), sep)

CsvHeader ==
  Join(<<<<"f", "i", "r", "s", "t", "N", "a", "m", "e">>,
         <<"l", "a", "s", "t", "N", "a", "m", "e">>, HeaderEmail>>, ",")

EmailPadded == <<" ">> \o EmailA
CsvRows == {<<NameJ, NameJ, EmailA>>, <<NameJ, NameJ, EmailAUpper>>, <<<<>>, NameJ, EmailA>>}

CsvFile(rows) ==
  Join(<<CsvHeader>> \o [i \in 1..Len(rows) |-> Join(rows[i], ",")], "\n")

RowSeqs(n) == UNION {[1..k -> CsvRows] : k \in 0..n}

FileEmpty == <<>>
FileNoEmailHeader == Join(<<Join(<<HeaderFirstName, HeaderLastName>>, ","),
                            Join(<<NameJ, NameJ>>, ",")>>, "\n")
FileReordered == Join(<<Join(<<HeaderEmail, HeaderLastName, HeaderFirstName>>, ","),
                        Join(<<EmailA, NameJ, NameJ>>, ",")>>, "\n")
FileCrLf == Join(<<CsvHeader \o <<"\r">>, Join(<<NameJ, NameJ, EmailA>>, ",") \o <<"\r">>,
                   <<>>>>, "\n")

FilePadded == CsvFile(<<<<NameJ, NameJ, EmailPadded>>, <<NameJ, NameJ, EmailAUpper>>>>)
FileMalformed == CsvFile(<<<<NameJ, NameJ, EmailNoDot>>, <<NameJ, NameJ, EmailA>>>>)

Files ==
  {CsvFile(rows) : rows \in RowSeqs(MaxRows)}
    \cup {FileEmpty, FileNoEmailHeader, FileReordered, FileCrLf, FilePadded,
          FileMalformed}

\* value.replace(/"/g, '""')
RECURSIVE DoubleQuotes(_)
DoubleQuotes(value) ==
  IF value = <<>> THEN <<>>
  ELSE IF Head(value) = "\"" THEN <<"\"", "\"">> \o DoubleQuotes(Tail(value))
  ELSE <<Head(value)>> \o DoubleQuotes(Tail(value))

\* the cell downloadContactsCsv writes for value
CsvCell(value) ==
  IF \E i \in 1..Len(value) : value[i] \in {",", "\"", "\n"}
  THEN <<"\"">> \o DoubleQuotes(value) \o <<"\"">>
  ELSE value

\* csvContent of downloadContactsCsv for a list that has contacts
csvContent(contacts) ==
  LET headers == <<<<"f", "i", "r", "s", "t", "N", "a", "m", "e">>, <<"l", "a", "s", "t", "N", "a", "m", "e">>, HeaderEmail>>
      rows == [i \in 1..Len(contacts) |->
                 <<contacts[i].firstName, contacts[i].lastName, contacts[i].email>>]
      all == <<headers>> \o rows
  IN Join([r \in 1..Len(all) |-> Join([c \in 1..3 |-> CsvCell(all[r][c])], ",")], "\n")

\* the file downloadContactsCsv wrote for contacts is read by parseCsvContacts
parseExported(contacts) ==
  /\ ~csvParsed.called
  /\ csvParsed' = [called |-> TRUE, contacts |-> contacts,
                   result |-> parseCsvContacts(csvContent(contacts))]
  /\ UNCHANGED <<kvTestMode, now, listVars, suppressionVars, trackingVars, calls,
                 page, composerVars, contactToast, otherForm, ioVars, sessionVars,
                 storeVars, pendingDeletes, deleteCalls, deletedOnBackend,
                 contactListing, metricsCall, inferredTenant>>

\* names with the characters the export quotes
NameComma == <<"J", ",", "K">>
NameQuote == <<"J", "\"">>
NameNewline == <<"J", "\n", "K">>
ExportNames == {NameJ, NameComma, NameQuote, NameNewline}

\* the stored contacts an export may find, the first with id 1, the next 2
ExportContacts(n) ==
  {contacts \in UNION {[1..k -> [id : 1..n, email : {EmailA, EmailB},
                                  firstName : ExportNames, lastName : ExportNames,
                                  addedAt : {1}]] : k \in 1..n} :
     \A i \in DOMAIN contacts : contacts[i].id = i}

\* the spellings of the three header names an import file may carry
HeaderSpellings ==
  <<{HeaderFirstName, <<"f", "i", "r", "s", "t", "N", "a", "m", "e">>,
     <<"F", "I", "R", "S", "T", "N", "A", "M", "E">>},
    {HeaderLastName, <<"l", "a", "s", "t", "N", "a", "m", "e">>,
     <<"L", "A", "S", "T", "N", "A", "M", "E">>},
    {HeaderEmail, <<"E", "m", "a", "i", "l">>, <<"E", "M", "A", "I", "L">>}>>

\* which columns a file has and in what order: 1 firstName, 2 lastName, 3 email
ColumnOrders ==
  {order \in [1..3 -> 1..3] \cup [1..2 -> 1..3] :
     \A i, j \in DOMAIN order : order[i] = order[j] => i = j}

NameK == <<"K">>
HeaderRowValues == {<<NameJ, NameK, EmailB>>, <<NameJ, NameK, EmailA>>}

\* a file of a header line and one data row, written in the column order
HeaderFile(order, spelling, values) ==
  Join(<<Join([i \in DOMAIN order |-> spelling[order[i]]], ","),
         Join([i \in DOMAIN order |-> values[order[i]]], ",")>>, "\n")

\* file.text() resolves with a file of the given columns
importCsv(listId, order, spelling, values) ==
  fileTextResolvedAs(listId, HeaderFile(order, spelling, values),
                     [called |-> TRUE, order |-> order, values |-> values])

ListIdsOf(lists) == {lists[i].id : i \in 1..Len(lists)}

\* -------------------------------------------------------------- EmailComposer
TextHi == <<"h", "i">>
FormTexts == {<<>>, TextHi}

\* the unsubscribe list the composer's hook returns (never set in API mode)
ComposerUnsubscribed == IF kvTestMode THEN unsubscribedEmails ELSE <<>>

EffectiveLists == IF kvTestMode THEN distributionLists ELSE apiDistributionLists

\* effectiveLists.filter(l => selectedLists.includes(l.id)).flatMap(l => l.contacts)
RECURSIVE AllRecipients(_, _)
AllRecipients(lists, selected) ==
  IF lists = <<>> THEN <<>>
  ELSE (IF Head(lists).id \in selected THEN Head(lists).contacts ELSE <<>>)
       \o AllRecipients(Tail(lists), selected)

\* the filter both sendEmail and getRecipientCounts apply
ActiveRecipients(allRecipients, unsubscribed) ==
  getActiveContacts(allRecipients, unsubscribed)

getRecipientCounts ==
  LET allRecipients == AllRecipients(EffectiveLists, form.selectedLists)
      activeRecipients == ActiveRecipients(allRecipients, ComposerUnsubscribed)
  IN IF form.selectedLists = {}
     THEN [total |-> 0, active |-> 0, filtered |-> 0]
     ELSE [total |-> Len(allRecipients), active |-> Len(activeRecipients),
           filtered |-> Len(allRecipients) - Len(activeRecipients)]

setSubject(text) ==
  /\ form.subject # text
  /\ form' = [form EXCEPT !.subject = text]
  /\ UNCHANGED <<kvTestMode, now, listVars, suppressionVars, trackingVars, calls,
                 page, drafts, lastSend, extVars>>

setContent(text) ==
  /\ form.content # text
  /\ form' = [form EXCEPT !.content = text]
  /\ UNCHANGED <<kvTestMode, now, listVars, suppressionVars, trackingVars, calls,
                 page, drafts, lastSend, extVars>>

\* the list check boxes: the offered lists are the effective lists
setSelectedLists(listId) ==
  /\ \E i \in 1..Len(EffectiveLists) : EffectiveLists[i].id = listId
  /\ form' = [form EXCEPT !.selectedLists =
                IF listId \in @ THEN @ \ {listId} ELSE @ \cup {listId}]
  /\ UNCHANGED <<kvTestMode, now, listVars, suppressionVars, trackingVars, calls,
                 page, drafts, lastSend, extVars>>

\* refreshApiLists (API mode): the lists and contacts the backend returns,
\* taken to be those the DistributionLists component holds
refreshApiLists ==
  /\ ~kvTestMode
  /\ apiDistributionLists # distributionLists
  /\ apiDistributionLists' = distributionLists
  /\ UNCHANGED <<kvTestMode, now, distributionLists, pendingAdds, importVars,
                 suppressionVars, trackingVars, calls, page, composerVars,
                 extVars>>

DraftIndex(ds, id) ==
  IF \E i \in 1..Len(ds) : ds[i].id = id
  THEN CHOOSE i \in 1..Len(ds) : ds[i].id = id /\ \A j \in 1..(i - 1) : ds[j].id # id
  ELSE 0

\* setDrafts(current => replace the record with email.id, else append)
Upsert(ds, email) ==
  IF DraftIndex(ds, email.id) # 0
  THEN [ds EXCEPT ![DraftIndex(ds, email.id)] = email]
  ELSE Append(ds, email)

\* the toasts of sendEmail
ErrFillAllFields ==
  "Please fill in all fields and select at least one distribution list"
InfoServerResolves == "Sending campaign (contacts will be resolved on server)"
ErrNoActiveRecipients ==
  "No active recipients found after applying unsubscribe filters"
EmailSent == "Email sent successfully"

SendAllRecipients == AllRecipients(EffectiveLists, form.selectedLists)
SendActiveRecipients == ActiveRecipients(SendAllRecipients, ComposerUnsubscribed)

\* the form passes sendEmail's first check
SendFormFilled ==
  /\ Trim(form.subject) # <<>>
  /\ Trim(form.content) # <<>>
  /\ form.selectedLists # {}

\* sendEmail reaches its end: the form is filled in and a recipient is active
SendAccepted == SendFormFilled /\ Len(SendActiveRecipients) > 0

\* sendEmail.  A form that is not filled in returns after an error toast.  With
\* no active recipient the KV mode returns after an error toast, and the API
\* mode shows an info toast and then throws a TypeError at sampleRecipient.email
\* (activeRecipients[0] is undefined), before any state setter and before
\* apiClient.createCampaign.
sendEmail ==
  LET allRecipients == SendAllRecipients
      activeRecipients == SendActiveRecipients
      emailId == IF form.currentDraft # NoDraft THEN form.currentDraft ELSE now
      idx == DraftIndex(drafts, form.currentDraft)
      email == [id |-> emailId, subject |-> form.subject, content |-> form.content,
                selectedLists |-> form.selectedLists, status |-> "sent",
                createdAt |-> IF form.currentDraft # NoDraft /\ idx # 0
                              THEN drafts[idx].createdAt ELSE now,
                sentAt |-> now, totalRecipients |-> Len(activeRecipients)]
      computed == [NoSend EXCEPT !.all = allRecipients, !.active = activeRecipients,
                     !.filtered = Len(allRecipients) - Len(activeRecipients),
                     !.unsubscribed = ComposerUnsubscribed]
  IN
  /\ IF ~SendFormFilled
     THEN /\ lastSend' = [NoSend EXCEPT !.toast = ErrFillAllFields]
          /\ UNCHANGED <<form, drafts, now>>
     ELSE IF Len(activeRecipients) = 0
     THEN /\ lastSend' = IF kvTestMode
                         THEN [computed EXCEPT !.toast = ErrNoActiveRecipients]
                         ELSE [computed EXCEPT !.toast = InfoServerResolves,
                                               !.threw = TRUE]
          /\ UNCHANGED <<form, drafts, now>>
     ELSE /\ drafts' = Upsert(drafts, email)
          /\ form' = InitialForm
          /\ now' = now + 1
          /\ lastSend' = [computed EXCEPT !.sent = TRUE, !.toast = EmailSent,
                                          !.dispatched = ~kvTestMode]
  /\ UNCHANGED <<kvTestMode, listVars, suppressionVars, trackingVars, calls, page,
                 extVars>>

\* saveDraft: writes the form under currentDraft (or a new id) with status
\* 'draft', replacing the record of that id whatever its status is
saveDraft ==
  LET id == IF form.currentDraft # NoDraft THEN form.currentDraft ELSE now
      idx == DraftIndex(drafts, form.currentDraft)
      draft == [id |-> id, subject |-> form.subject, content |-> form.content,
                selectedLists |-> form.selectedLists, status |-> "draft",
                createdAt |-> IF form.currentDraft # NoDraft /\ idx # 0
                              THEN drafts[idx].createdAt ELSE now]
  IN
  /\ drafts' = Upsert(drafts, draft)
  /\ form' = [form EXCEPT !.currentDraft = id]
  /\ now' = IF form.currentDraft # NoDraft THEN now ELSE now + 1
  /\ UNCHANGED <<kvTestMode, listVars, suppressionVars, trackingVars, calls, page,
                 lastSend, extVars>>

\* drafts.filter(d => d.status === 'draft'): the records the draft list offers
pendingDrafts == {drafts[i] : i \in {j \in 1..Len(drafts) : drafts[j].status = "draft"}}

\* loadDraft(draft) from the click on a record of the draft list
loadDraft(draft) ==
  /\ draft \in pendingDrafts
  /\ form' = [subject |-> draft.subject, content |-> draft.content,
              selectedLists |-> draft.selectedLists, currentDraft |-> draft.id]
  /\ form' # form
  /\ UNCHANGED <<kvTestMode, now, listVars, suppressionVars, trackingVars, calls,
                 page, drafts, lastSend, extVars>>

\* the user turns to the EmailComposer of a second browser tab of the same
\* workspace.  Only the KV mode is modelled with two tabs: there the drafts
\* are the shared KV entry, in API mode they are local to each component.
switchTab ==
  /\ kvTestMode
  /\ form' = otherForm
  /\ otherForm' = form
  /\ form # otherForm
  /\ UNCHANGED <<kvTestMode, now, listVars, suppressionVars, trackingVars, calls,
                 page, drafts, lastSend, contactToast, sessionVars, storeVars,
                 ioVars, auxVars>>

\* --------------------------------------------------------------- AuthProvider
\* shouldBypassAuth(settings, window.location.pathname)
shouldBypassAuth(sett, pathname) ==
  sett.bypassAuth \/ StrIncludes(ToLowerCase(pathname), PathUnsubscribe)

bypassed == shouldBypassAuth(settings, window.pathname)

\* councillorData: the councillor id useAuthState computes for an account
councillorData(account) ==
  IF bypassed \/ settings.mode = "off"
  THEN IF window.search.councillorId # <<>>
       THEN window.search.councillorId
       ELSE settings.fallbackCouncillorId
  ELSE IF account.councillorClaim # <<>> THEN account.councillorClaim
       ELSE IF account.oid # <<>> THEN account.oid
       ELSE settings.fallbackCouncillorId

\* publishCouncillorContext(councillorId), called while useAuthState renders
publishCouncillorContext(councillorId) ==
  window' = [window EXCEPT !.councillorContext = councillorId]

isAuthenticated(a) == bypassed \/ a.account.present

\* AuthStateProvider renders its children (the App)
RendersChildren(a) == a.mounted /\ ~a.loading /\ isAuthenticated(a)

\* the App is unmounted as soon as AuthStateProvider stops rendering it
AppUnder(a) == IF RendersChildren(a) THEN app ELSE NoApp

\* first render of AuthStateProvider
AuthProviderRender ==
  /\ ~auth.mounted
  /\ auth' = [auth EXCEPT !.mounted = TRUE]
  /\ publishCouncillorContext(councillorData(auth.account))
  /\ UNCHANGED <<kvTestMode, now, listVars, suppressionVars, trackingVars, calls,
                 page, composerVars, contactToast, otherForm, ioVars, settings, app,
                 storeVars, auxVars>>

\* initialize() has run to its end; outcome is what MSAL reports: the active
\* account, "none" (no account) or "error" (initialize or the redirect threw)
initialize(outcome, account) ==
  /\ auth.mounted
  /\ ~auth.initialized
  /\ \E next \in {IF bypassed \/ settings.mode = "off"
                  THEN [auth EXCEPT !.loading = FALSE, !.initialized = TRUE]
                  ELSE IF ~settings.clientId \/ outcome = "error"
                  THEN [auth EXCEPT !.error = TRUE, !.loading = FALSE,
                                    !.initialized = TRUE]
                  ELSE IF outcome = "none"
                  THEN [auth EXCEPT !.loading = FALSE, !.initialized = TRUE]
                  ELSE [auth EXCEPT !.account = account, !.loading = FALSE,
                                    !.initialized = TRUE]} :
       /\ auth' = next
       /\ publishCouncillorContext(councillorData(next.account))
       /\ app' = AppUnder(next)
  /\ UNCHANGED <<kvTestMode, now, listVars, suppressionVars, trackingVars, calls,
                 page, composerVars, contactToast, otherForm, ioVars, settings, storeVars,
                 auxVars>>

\* the MSAL event callback: msal:loginSuccess / msal:acquireTokenSuccess
loginSuccess(account) ==
  /\ auth.mounted
  /\ ~bypassed /\ settings.mode # "off"
  /\ auth.account # account
  /\ auth' = [auth EXCEPT !.account = account]
  /\ publishCouncillorContext(councillorData(account))
  /\ app' = AppUnder([auth EXCEPT !.account = account])
  /\ UNCHANGED <<kvTestMode, now, listVars, suppressionVars, trackingVars, calls,
                 page, composerVars, contactToast, otherForm, ioVars, settings, storeVars,
                 auxVars>>

\* the MSAL event callback: msal:logoutSuccess
logoutSuccess ==
  /\ auth.mounted
  /\ ~bypassed /\ settings.mode # "off"
  /\ auth.account.present
  /\ auth' = [auth EXCEPT !.account = NoAccount]
  /\ publishCouncillorContext(councillorData(NoAccount))
  /\ app' = AppUnder([auth EXCEPT !.account = NoAccount])
  /\ UNCHANGED <<kvTestMode, now, listVars, suppressionVars, trackingVars, calls,
                 page, composerVars, contactToast, otherForm, ioVars, settings, storeVars,
                 auxVars>>

\* ------------------------------------------------------------------------ App
\* first render of App: isUnsubscribePage is still false, so the tab shell
\* with the EmailComposer is what it returns
AppRender ==
  /\ RendersChildren(auth)
  /\ ~app.mounted
  /\ app' = [NoApp EXCEPT !.mounted = TRUE, !.shows = "workspace"]
  /\ UNCHANGED <<kvTestMode, now, listVars, suppressionVars, trackingVars, calls,
                 page, composerVars, contactToast, otherForm, ioVars, window, settings,
                 auth, storeVars, auxVars>>

\* the effects of that render: EmailComposer's (refreshApiLists asks the
\* backend for the lists in API mode), then App's (route detection)
AppEffects ==
  /\ app.mounted
  /\ ~app.effects
  /\ \E isUnsubscribePage \in {\/ StrIncludes(window.pathname, PathUnsubscribe)
                               \/ window.search.id # <<>>
                               \/ window.search.email # <<>>} :
       app' = [app EXCEPT
                 !.effects = TRUE,
                 !.requested = IF kvTestMode THEN None
                               ELSE IF auth.account.present THEN "signed-in"
                               ELSE "anonymous",
                 !.isUnsubscribePage = isUnsubscribePage,
                 !.shows = IF isUnsubscribePage THEN "unsubscribe" ELSE "workspace"]
  /\ UNCHANGED <<kvTestMode, now, listVars, suppressionVars, trackingVars, calls,
                 page, composerVars, contactToast, otherForm, ioVars, window, settings,
                 auth, storeVars, auxVars>>

\* ---------------------------------------------------------------- tenant keys
\* the councillor id getCouncillorKey puts in front of a key
councillorIdOf(win) ==
  IF win.councillorContext # <<>>
  THEN win.councillorContext
  ELSE LET label == Head(SplitOn(win.hostname, "."))
           subdomain == IF label # <<>> THEN label ELSE DefaultTenant
       IN IF subdomain = Localhost \/ StrIncludes(subdomain, Localhost)
          THEN DefaultCouncillor
          ELSE subdomain

\* getCouncillorKey(baseKey) == `${councillorId}:${baseKey}`
getCouncillorKey(win, baseKey) == councillorIdOf(win) \o <<":">> \o baseKey

\* the default councillorIdProvider of apiClient: the first hostname label,
\* 'default-councillor' for the label localhost
councillorIdProvider(win) ==
  LET sub == Head(SplitOn(win.hostname, "."))
  IN IF sub = Localhost THEN DefaultCouncillor ELSE sub

KeyUnsubscribedEmails ==
  <<"u", "n", "s", "u", "b", "s", "c", "r", "i", "b", "e", "d", "-", "e", "m",
    "a", "i", "l", "s">>
KeyEmailOpens == <<"e", "m", "a", "i", "l", "-", "o", "p", "e", "n", "s", ":">>
KeyEmailUnsubscribes ==
  <<"e", "m", "a", "i", "l", "-", "u", "n", "s", "u", "b", "s", "c", "r", "i",
    "b", "e", "s", ":">>
KeyTracking == <<"t", "r", "a", "c", "k", "i", "n", "g", ":">>

\* Date.now().toString() of the model clock (one digit)
DigitsOf(t) ==
  <<CASE t = 0 -> "0" [] t = 1 -> "1" [] t = 2 -> "2" [] t = 3 -> "3"
      [] t = 4 -> "4" [] t = 5 -> "5" [] t = 6 -> "6" [] t = 7 -> "7"
      [] t = 8 -> "8" [] OTHER -> "9">>

\* bytes of the text that 16 base64 characters encode
TrackingIdBytes == 12

\* btoa(`${emailId}:${recipientEmail}:${Date.now()}`).replace(/[+=\/]/g, '')
\* .substring(0, 16) for text given character by character: base64 turns each
\* 3 bytes into 4 characters and yields no '+' or '/' for the ASCII text used
\* here, so the id is a one-to-one image of the first 12 bytes of the text.
\* It is represented by those bytes.
trackingIdText(emailId, recipientEmail, t) ==
  LET combined == emailId \o <<":">> \o recipientEmail \o <<":">> \o DigitsOf(t)
  IN SubSeq(combined, 1, IF Len(combined) < TrackingIdBytes
                         THEN Len(combined) ELSE TrackingIdBytes)

\* kv.get(key) || []
KvGet(store, key) == IF key \in DOMAIN store THEN store[key] ELSE <<>>

\* the keys were used by a call made under councillor id tenant
Touch(users, keys, tenant) ==
  [k \in DOMAIN users \cup keys |->
     (IF k \in DOMAIN users THEN users[k] ELSE {})
       \cup (IF k \in keys THEN {tenant} ELSE {})]

\* recordEmailOpen(emailId, recipientEmail) in KV mode, run from its first
\* to its last statement: the keys it uses do not depend on what runs between
recordEmailOpenKv(emailId, recipientEmail) ==
  LET tracking == [emailId |-> emailId, recipientEmail |-> recipientEmail,
                   openedAt |-> now]
      trackingKey == KeyTracking \o trackingIdText(emailId, recipientEmail, now)
      opensKey == getCouncillorKey(window, KeyEmailOpens \o emailId)
      existingOpens == KvGet(sparkKv, opensKey)
      opened == \E i \in 1..Len(existingOpens) :
                  existingOpens[i].recipientEmail = recipientEmail
  IN
  /\ kvTestMode
  /\ sparkKv' = Put(Put(sparkKv, trackingKey, <<tracking>>), opensKey,
                    IF opened THEN existingOpens
                    ELSE Append(existingOpens, tracking))
  /\ kvUsers' = Touch(kvUsers, {trackingKey, opensKey}, councillorIdOf(window))
  /\ now' = now + 1
  /\ UNCHANGED <<kvTestMode, listVars, suppressionVars, trackingVars, calls, page,
                 composerVars, contactToast, otherForm, ioVars, sessionVars,
                 auxVars>>

\* recordUnsubscribe(emailId, recipientEmail) in KV mode, run as a whole
recordUnsubscribeKv(emailId, recipientEmail) ==
  LET tracking == [emailId |-> emailId, recipientEmail |-> recipientEmail,
                   unsubscribedAt |-> now]
      unsubscribedKey == getCouncillorKey(window, KeyUnsubscribedEmails)
      currentUnsubscribed == KvGet(sparkKv, unsubscribedKey)
      unsubscribesKey == getCouncillorKey(window, KeyEmailUnsubscribes \o emailId)
      existingUnsubscribes == KvGet(sparkKv, unsubscribesKey)
  IN
  /\ kvTestMode
  /\ sparkKv' = Put(Put(sparkKv, unsubscribedKey,
                        IF Includes(currentUnsubscribed, recipientEmail)
                        THEN currentUnsubscribed
                        ELSE Append(currentUnsubscribed, recipientEmail)),
                    unsubscribesKey, Append(existingUnsubscribes, tracking))
  /\ kvUsers' = Touch(kvUsers, {unsubscribedKey, unsubscribesKey}, councillorIdOf(window))
  /\ now' = now + 1
  /\ UNCHANGED <<kvTestMode, listVars, suppressionVars, trackingVars, calls, page,
                 composerVars, contactToast, otherForm, ioVars, sessionVars,
                 auxVars>>

\* getEmailMetrics(emailId, totalSent) in KV mode: the two lists it reads
getEmailMetricsKv(emailId) ==
  /\ kvTestMode
  /\ kvUsers' = Touch(kvUsers, {getCouncillorKey(window, KeyEmailOpens \o emailId),
                                getCouncillorKey(window, KeyEmailUnsubscribes \o emailId)},
                      councillorIdOf(window))
  /\ UNCHANGED <<kvTestMode, now, listVars, suppressionVars, trackingVars, calls,
                 page, composerVars, contactToast, otherForm, ioVars, sessionVars, sparkKv,
                 auxVars>>

\* -------------------------------------------------------- processEmailContent
\* Fixed template text is kept as one element of the resulting sequence; the
\* message body and the URLs are kept character by character.

\* application/x-www-form-urlencoded serialisation of URLSearchParams.toString()
FormEncodeChar(ch) ==
  CASE ch = "@" -> <<"%", "4", "0">>
    [] ch = "+" -> <<"%", "2", "B">>
    [] ch = ":" -> <<"%", "3", "A">>
    [] ch = " " -> <<"+">>
    [] OTHER -> <<ch>>

RECURSIVE FormEncode(_)
FormEncode(s) ==
  IF s = <<>> THEN <<>> ELSE FormEncodeChar(Head(s)) \o FormEncode(Tail(s))

\* configuredApiUrl || 'http://localhost:7071/api'
ApiBaseUrl ==
  <<"h", "t", "t", "p", ":", "/", "/", "l", "o", "c", "a", "l", "h", "o", "s",
    "t", ":", "7", "0", "7", "1", "/", "a", "p", "i">>
ParamEmail == <<"e", "m", "a", "i", "l", "=">>
ParamCampaignId == <<"c", "a", "m", "p", "a", "i", "g", "n", "I", "d", "=">>
ParamContactId == <<"c", "o", "n", "t", "a", "c", "t", "I", "d", "=">>
ParamCouncillorId ==
  <<"c", "o", "u", "n", "c", "i", "l", "l", "o", "r", "I", "d", "=">>
RouteUnsubscribe ==
  <<"/", "u", "n", "s", "u", "b", "s", "c", "r", "i", "b", "e", "?">>
RouteTrackPixel ==
  <<"/", "t", "r", "a", "c", "k", "/", "p", "i", "x", "e", "l", "?">>

\* params = new URLSearchParams({ email }); the ids are set only when truthy
QueryString(recipientEmail, campaignId, contactId, councillorId) ==
  ParamEmail \o FormEncode(recipientEmail)
    \o (IF campaignId # <<>>
        THEN <<"&">> \o ParamCampaignId \o FormEncode(campaignId) ELSE <<>>)
    \o (IF contactId # <<>>
        THEN <<"&">> \o ParamContactId \o FormEncode(contactId) ELSE <<>>)
    \o (IF councillorId # <<>>
        THEN <<"&">> \o ParamCouncillorId \o FormEncode(councillorId) ELSE <<>>)

createUnsubscribeUrl(emailId, recipientEmail, campaignId, contactId, councillorId) ==
  ApiBaseUrl \o RouteUnsubscribe
    \o QueryString(recipientEmail, campaignId, contactId, councillorId)

createTrackingPixelUrl(emailId, recipientEmail, campaignId, contactId, councillorId) ==
  ApiBaseUrl \o RouteTrackPixel
    \o QueryString(recipientEmail, campaignId, contactId, councillorId)

\* `<img src="${trackingPixelUrl}" width="1" ... />`
trackingPixel(trackingPixelUrl) ==
  <<"<img src=", "\"">> \o trackingPixelUrl
    \o <<"\"", " width=\"1\" height=\"1\" style=\"display:block;border:0;outline:none;text-decoration:none;\" alt=\"\" />">>

NoUser == [present |-> FALSE, name |-> <<>>, ward |-> <<>>]
UserProfile(name, ward) == [present |-> TRUE, name |-> name, ward |-> ward]

\* userProfile ? `${name}${ward ? ` - ${ward}` : ''}` : 'Municipal Office'
senderInfo(userProfile) ==
  IF userProfile.present
  THEN userProfile.name
         \o (IF userProfile.ward # <<>> THEN <<" - ">> \o userProfile.ward ELSE <<>>)
  ELSE <<"Municipal Office">>

unsubscribeFooter(unsubscribeUrl, userProfile) ==
  <<"\n    <div style=\"margin-top: 40px; padding-top: 20px; border-top: 1px solid #e5e7eb; font-size: 12px; color: #6b7280; line-height: 1.4;\">\n      <p style=\"margin: 0 0 8px 0;\">\n        This email was sent by ">>
    \o senderInfo(userProfile)
    \o <<". \n      </p>\n      <p style=\"margin: 0;\">\n        If you no longer wish to receive these communications, you can \n        ", "<a href=", "\"">>
    \o unsubscribeUrl
    \o <<"\"", " style=\"color: #3b82f6; text-decoration: underline;\">unsubscribe here</a>.\n      </p>\n    </div>\n  ">>

TagHtml == <<"<", "h", "t", "m", "l", ">">>
TagBody == <<"<", "b", "o", "d", "y", ">">>
TagBodyClose == <<"<", "/", "b", "o", "d", "y", ">">>
TagBr == <<"<", "b", "r", ">">>

\* content.replace(/\n/g, '<br>')
RECURSIVE BreakLines(_)
BreakLines(s) ==
  IF s = <<>> THEN <<>>
  ELSE (IF Head(s) = "\n" THEN TagBr ELSE <<Head(s)>>) \o BreakLines(Tail(s))

\* position of the first match of /<\/body>/i in s, 0 when there is none
RECURSIVE BodyCloseFrom(_, _)
BodyCloseFrom(s, i) ==
  IF i + Len(TagBodyClose) - 1 > Len(s) THEN 0
  ELSE IF ToLowerCase(SubSeq(s, i, i + Len(TagBodyClose) - 1)) = TagBodyClose THEN i
  ELSE BodyCloseFrom(s, i + 1)

\* htmlContent.replace(/<\/body>/i, `${unsubscribeFooter}${trackingPixel}</body>`)
\* for a replacement text without '$'
ReplaceBodyClose(s, replacement) ==
  LET i == BodyCloseFrom(s, 1) IN
    IF i = 0 THEN s
    ELSE SubSeq(s, 1, i - 1) \o replacement
           \o SubSeq(s, i + Len(TagBodyClose), Len(s))

WrapInHtml(htmlContent, footer, pixel) ==
  <<"\n      <html>\n        <head>\n          <meta charset=\"utf-8\">\n          <meta name=\"viewport\" content=\"width=device-width, initial-scale=1.0\">\n        </head>\n        <body style=\"font-family: Arial, sans-serif; line-height: 1.6; color: #333; max-width: 600px; margin: 0 auto; padding: 20px;\">\n          ">>
    \o htmlContent \o <<"\n          ">> \o footer \o <<"\n          ">> \o pixel
    \o <<"\n        </body>\n      </html>\n    ">>

processEmailContent(content, emailId, recipientEmail, userProfile, campaignId, contactId, councillorId) ==
  LET unsubscribeUrl ==
        createUnsubscribeUrl(emailId, recipientEmail, campaignId, contactId, councillorId)
      trackingPixelUrl ==
        createTrackingPixelUrl(emailId, recipientEmail, campaignId, contactId, councillorId)
      pixel == trackingPixel(trackingPixelUrl)
      footer == unsubscribeFooter(unsubscribeUrl, userProfile)
      htmlContent == IF Includes(content, "<") THEN content ELSE BreakLines(content)
  IN  IF ~StrIncludes(htmlContent, TagHtml) /\ ~StrIncludes(htmlContent, TagBody)
      THEN WrapInHtml(htmlContent, footer, pixel)
      ELSE ReplaceBodyClose(htmlContent, footer \o pixel \o TagBodyClose)

\* a call of processEmailContent for the recipient contact of campaign emailId
\* under councillor tenant, with the optional ids as the caller passes them
Processed(caller, content, emailId, contact, tenant, userProfile, campaignId, contactId, councillorId) ==
  [called |-> TRUE, caller |-> caller, content |-> content, emailId |-> emailId, contact |-> contact,
   tenant |-> tenant, campaignId |-> campaignId, contactId |-> contactId,
   councillorId |-> councillorId,
   html |-> processEmailContent(content, emailId, contact.email, userProfile,
                                campaignId, contactId, councillorId)]

\* ------------------------------------------------------ createTrackingHandlers
IsHexDigit(ch) ==
  ch \in {"0", "1", "2", "3", "4", "5", "6", "7", "8", "9",
          "A", "B", "C", "D", "E", "F", "a", "b", "c", "d", "e", "f"}

\* the character of an escape %hi lo; only these escapes occur in the inputs
PercentChar(hi, lo) ==
  CASE hi = "4" /\ lo = "0" -> "@"
    [] hi = "2" /\ lo = "5" -> "%"
    [] hi = "2" /\ lo \in {"E", "e"} -> "."
    [] OTHER -> "?"

\* decodeURIComponent(s): ok is FALSE when it throws a URIError, which it does
\* for a '%' that is not followed by two hexadecimal digits
RECURSIVE DecodeURIComponent(_)
DecodeURIComponent(s) ==
  IF s = <<>> THEN [ok |-> TRUE, value |-> <<>>]
  ELSE IF Head(s) # "%"
  THEN LET rest == DecodeURIComponent(Tail(s))
       IN [ok |-> rest.ok, value |-> <<Head(s)>> \o rest.value]
  ELSE IF Len(s) >= 3 /\ IsHexDigit(s[2]) /\ IsHexDigit(s[3])
  THEN LET rest == DecodeURIComponent(SubSeq(s, 4, Len(s)))
       IN [ok |-> rest.ok, value |-> <<PercentChar(s[2], s[3])>> \o rest.value]
  ELSE [ok |-> FALSE, value |-> <<>>]

\* new Response(new Uint8Array([0x47, 0x49, 0x46, ...]), { headers })
PixelResponse ==
  [body |-> "GIF89a 1x1 transparent", contentType |-> "image/gif",
   cacheControl |-> "no-cache, no-store, must-revalidate", pragma |-> "no-cache",
   expires |-> "0"]

Handled(handler, id, email, outcome, response) ==
  [called |-> TRUE, handler |-> handler, id |-> id, email |-> email,
   outcome |-> outcome, response |-> response]

\* handleTrackingPixel(searchParams) with id and email the values of
\* searchParams.get: recordEmailOpen is started and not awaited; its argument
\* decodeURIComponent(email) is evaluated first and may throw
handleTrackingPixel(c, id, email) ==
  /\ handled' =
       IF id # None /\ email # <<>> /\ ~DecodeURIComponent(email).ok
       THEN Handled("handleTrackingPixel", id, email, "threw", None)
       ELSE Handled("handleTrackingPixel", id, email, "returned", PixelResponse)
  /\ IF id # None /\ email # <<>> /\ DecodeURIComponent(email).ok /\ kvTestMode
     THEN /\ FreeCall(c)
          /\ calls' = [calls EXCEPT ![c] =
                         StartedOpen(id, DecodeURIComponent(email).value)]
          /\ now' = now + 1
     ELSE /\ c = 1
          /\ UNCHANGED <<calls, now>>
  /\ UNCHANGED <<kvTestMode, listVars, suppressionVars, trackingVars, page,
                 composerVars, contactToast, otherForm, sessionVars, storeVars,
                 processed, auxVars>>

\* a window.spark.kv call of a recordEmailOpen in flight rejects: the promise
\* nobody awaits is rejected and the rest of the function does not run
recordEmailOpenRejected(c) ==
  /\ calls[c].kind = "open"
  /\ calls[c].pc # "idle"
  /\ calls' = [calls EXCEPT ![c] = IdleCall]
  /\ UNCHANGED <<kvTestMode, now, listVars, suppressionVars, trackingVars, page,
                 composerVars, extVars>>

\* createTrackingHandlers().handleUnsubscribe(searchParams) up to its await (or
\* to its end when recordUnsubscribe is not called)
handleUnsubscribeRequest(c, id, email) ==
  /\ ~(handled.called /\ handled.outcome = "pending")
  /\ IF id # None /\ email # <<>>
     THEN IF ~DecodeURIComponent(email).ok
          THEN /\ c = 1
               /\ handled' = Handled("handleUnsubscribe", id, email, "rejected", None)
               /\ UNCHANGED <<calls, now>>
          ELSE IF kvTestMode
          THEN /\ FreeCall(c)
               /\ calls' = [calls EXCEPT ![c] =
                              StartedUnsubscribe(id, DecodeURIComponent(email).value,
                                                 "handler")]
               /\ now' = now + 1
               /\ handled' = Handled("handleUnsubscribe", id, email, "pending", None)
          ELSE /\ c = 1
               /\ handled' = Handled("handleUnsubscribe", id, email, "resolved",
                                     [success |-> TRUE])
               /\ UNCHANGED <<calls, now>>
     ELSE /\ c = 1
          /\ handled' = Handled("handleUnsubscribe", id, email, "resolved",
                                [success |-> TRUE])
          /\ UNCHANGED <<calls, now>>
  /\ UNCHANGED <<kvTestMode, listVars, suppressionVars, trackingVars, page,
                 composerVars, contactToast, otherForm, sessionVars, storeVars,
                 processed, auxVars>>

\* await recordUnsubscribe(...) has completed: return { success: true }
handleUnsubscribeRequestResolved ==
  /\ handled.called
  /\ handled.outcome = "pending"
  /\ \E c \in CallIds :
       /\ calls[c].caller = "handler"
       /\ calls[c].pc = "done"
       /\ calls' = [calls EXCEPT ![c] = IdleCall]
  /\ handled' = [handled EXCEPT !.outcome = "resolved",
                                !.response = [success |-> TRUE]]
  /\ UNCHANGED <<kvTestMode, now, listVars, suppressionVars, trackingVars, page,
                 composerVars, contactToast, otherForm, sessionVars, storeVars,
                 processed, auxVars>>

\* ------------------------------------------------------------- specifications
\* unsubscribe requests: recordUnsubscribe calls, Settings and UnsubscribePage
NextUnsub ==
  \/ /\ now < MaxClock
     /\ \E c \in CallIds, id \in EmailIds, e \in UnsubEmails : recordUnsubscribeCall(c, id, e)
  \/ \E c \in CallIds : recordUnsubscribeGetList(c)
  \/ \E c \in CallIds : recordUnsubscribeSetList(c)
  \/ \E c \in CallIds : recordUnsubscribeGetEvents(c)
  \/ \E c \in CallIds : recordUnsubscribeSetEvents(c)
  \/ \E e \in PageEmails : addUnsubscribeEmail(e)
  \/ \E e \in UnsubEmails : removeUnsubscribeEmail(e)
  \/ \E e \in PageEmails : setEmail(e)
  \/ handleUnsubscribeInvalid
  \/ now < MaxClock /\ handleUnsubscribe
  \/ handleUnsubscribeRecorded
  \/ handleUnsubscribeResolved
  \/ handleUnsubscribeRejected
  \/ handleResubscribe
  \/ \E ok \in BOOLEAN : handleResubscribeSettled(ok)

SpecUnsub == Init /\ [][NextUnsub]_vars

\* suppression at send time: lists, the unsubscribe list and the composer
NextSend ==
  \/ now < MaxSendClock /\ createList(NameJ)
  \/ /\ now < MaxSendClock
     /\ \E l \in ListIdsOf(distributionLists), e \in SendEmails :
          /\ addContactError(l, e, NameJ, NameJ) = None
          /\ addContact(l, e, NameJ, NameJ)
  \/ /\ now < MaxSendClock
     /\ \E req \in pendingAdds : addContactSettled(req, TRUE)
  \/ /\ now < MaxSendClock
     /\ \E e \in UnsubEmails : recordUnsubscribeCall(1, "e1", e)
  \/ recordUnsubscribeGetList(1)
  \/ recordUnsubscribeSetList(1)
  \/ recordUnsubscribeGetEvents(1)
  \/ recordUnsubscribeSetEvents(1)
  \/ \E e \in UnsubEmails : addUnsubscribeEmail(e)
  \/ \E e \in UnsubEmails : removeUnsubscribeEmail(e)
  \/ now < MaxSendClock /\ handleUnsubscribe
  \/ handleUnsubscribeRecorded
  \/ handleUnsubscribeResolved
  \/ handleUnsubscribeRejected
  \/ handleResubscribe
  \/ \E ok \in BOOLEAN : handleResubscribeSettled(ok)
  \/ setSubject(TextHi)
  \/ setContent(TextHi)
  \/ \E l \in 1..MaxSendClock : setSelectedLists(l)
  \/ refreshApiLists
  \/ now < MaxSendClock /\ SendAccepted /\ sendEmail

SpecSend == InitLinked /\ [][NextSend]_vars

\* engagement tracking: concurrent recordEmailOpen and recordUnsubscribe calls
NextTrack ==
  \/ /\ now < MaxTrackClock
     /\ \E c \in CallIds, id \in EmailIds, e \in OpenEmails : recordEmailOpenCall(c, id, e)
  \/ \E c \in CallIds : recordEmailOpenSetTracking(c)
  \/ \E c \in CallIds : recordEmailOpenGetOpens(c)
  \/ \E c \in CallIds : recordEmailOpenSetOpens(c)
  \/ /\ now < MaxTrackClock
     /\ \E c \in CallIds, id \in EmailIds : recordUnsubscribeCall(c, id, EmailA)
  \/ \E c \in CallIds : recordUnsubscribeGetList(c)
  \/ \E c \in CallIds : recordUnsubscribeSetList(c)
  \/ \E c \in CallIds : recordUnsubscribeGetEvents(c)
  \/ \E c \in CallIds : recordUnsubscribeSetEvents(c)

SpecTrack == InitMain /\ [][NextTrack]_vars

\* contact lists: addContact and CSV import
NextLists ==
  \/ now < MaxListClock /\ \E name \in InputNames : createList(name)
  \/ /\ now < MaxListClock
     /\ \E l \in ListIdsOf(distributionLists), e \in ListEmails :
          addContact(l, e, NameJ, NameJ)
  \/ /\ now < MaxListClock
     /\ \E req \in pendingAdds, ok \in BOOLEAN : addContactSettled(req, ok)
  \/ /\ now < MaxListClock
     /\ \E l \in ListIdsOf(distributionLists) : handleFileChange(l)
  \/ \E l \in DOMAIN imports : fileTextRejected(l)
  \/ \E l \in DOMAIN imports, content \in Files : fileTextResolved(l, content)
  \/ \E l \in DOMAIN imports, ok \in BOOLEAN : importAddContactSettled(l, ok)

SpecLists == InitMain /\ [][NextLists]_vars

\* the contact form: every kind of input addContact tells apart
ContactEmails == {EmailA, EmailAUpper, EmailB, EmailNoDot, EmailPadded, EmailEmpty}
ContactNames == {NameJ, <<"K">>, NameBlank}

NextContacts ==
  \/ now < MaxContactClock /\ createList(NameJ)
  \/ /\ now < MaxContactClock
     /\ \E l \in ListIdsOf(distributionLists), e \in ContactEmails,
           f \in ContactNames, n \in InputNames : addContact(l, e, f, n)
  \/ /\ now < MaxContactClock
     /\ \E req \in pendingAdds, ok \in BOOLEAN : addContactSettled(req, ok)

SpecContacts == InitMain /\ [][NextContacts]_vars

\* tenant resolution and the keys of the tracking functions
Hostnames == {Localhost, HostW1, <<>>}
Accounts == {Account(W1, W2), Account(<<>>, W2)}
CampaignA == <<"1", "7", "0", "0", "0", "0", "0", "0", "0", "0", "0", "0", "1">>
CampaignB == <<"1", "7", "0", "0", "0", "0", "0", "0", "0", "0", "0", "0", "2">>
CampaignIds == {CampaignA, CampaignB}

InitTenant ==
  /\ InitCore
  /\ kvTestMode
  /\ page = InitialPage(EmailEmpty, None)
  /\ InitForms
  /\ InitStore
  /\ InitIo
  /\ \E mode \in {"off", "entra"}, fallback \in {DefaultCouncillor, W9},
        hostname \in Hostnames, councillorId \in {<<>>, W2} :
       /\ mode = "entra" => councillorId = <<>>
       /\ InitSession([mode |-> mode, bypassAuth |-> mode = "off", clientId |-> TRUE,
                       fallbackCouncillorId |-> fallback],
                      hostname, PathRoot,
                      [NoSearch EXCEPT !.councillorId = councillorId])

NextTenant ==
  \/ AuthProviderRender
  \/ \E outcome \in {"account", "none", "error"}, account \in Accounts :
       initialize(outcome, account)
  \/ \E account \in Accounts : loginSuccess(account)
  \/ logoutSuccess
  \/ /\ now < MaxTenantClock
     /\ \E id \in CampaignIds : recordEmailOpenKv(id, EmailA)
  \/ /\ now < MaxTenantClock
     /\ recordUnsubscribeKv(CampaignA, EmailA)
  \/ now < MaxTenantClock /\ getEmailMetricsKv(CampaignA)

SpecTenant == InitTenant /\ [][NextTenant]_vars

\* route protection: the AuthProvider and the App under every configuration
Paths == {PathRoot, PathUnsubscribe, PathUnsubscribeCapital}
Searches == {NoSearch, [NoSearch EXCEPT !.email = EmailA],
             [NoSearch EXCEPT !.councillorId = W2]}

InitAuth ==
  /\ InitCore
  /\ page = InitialPage(EmailEmpty, None)
  /\ InitForms
  /\ InitStore
  /\ InitIo
  /\ \E mode \in {"off", "entra", "b2c"}, bypassAuth \in BOOLEAN, clientId \in BOOLEAN,
        pathname \in Paths, search \in Searches :
       InitSession([mode |-> mode, bypassAuth |-> (mode = "off" \/ bypassAuth),
                    clientId |-> clientId, fallbackCouncillorId |-> DefaultCouncillor],
                   HostW1, pathname, search)

NextAuth ==
  \/ AuthProviderRender
  \/ \E outcome \in {"account", "none", "error"} : initialize(outcome, Account(W1, W2))
  \/ loginSuccess(Account(W1, W2))
  \/ logoutSuccess
  \/ AppRender
  \/ AppEffects

SpecAuth == InitAuth /\ [][NextAuth]_vars

\* the tracking handlers and the unsubscribe page, for every kind of query
EmailEncoded == <<"a", "%", "4", "0", "x", ".", "c">>
EmailPercent == <<"a", "%", "@", "x", ".", "c">>
QueryIds == {None, "e1"}
QueryEmails == {<<>>, EmailA, EmailEncoded, EmailPercent}

NextHandlers ==
  \/ /\ now < MaxHandlerClock
     /\ \E c \in CallIds, id \in QueryIds, email \in QueryEmails :
          handleTrackingPixel(c, id, email)
  \/ \E c \in CallIds : recordEmailOpenSetTracking(c)
  \/ \E c \in CallIds : recordEmailOpenGetOpens(c)
  \/ \E c \in CallIds : recordEmailOpenSetOpens(c)
  \/ \E c \in CallIds : recordEmailOpenRejected(c)
  \/ /\ now < MaxHandlerClock
     /\ \E c \in CallIds, id \in QueryIds, email \in QueryEmails :
          handleUnsubscribeRequest(c, id, email)
  \/ \E c \in CallIds : recordUnsubscribeGetList(c)
  \/ \E c \in CallIds : recordUnsubscribeSetList(c)
  \/ \E c \in CallIds : recordUnsubscribeGetEvents(c)
  \/ \E c \in CallIds : recordUnsubscribeSetEvents(c)
  \/ handleUnsubscribeRequestResolved
  \/ \E e \in {EmailEmpty, EmailNoDot} : setEmail(e)
  \/ handleUnsubscribeInvalid

SpecHandlers == InitMain /\ [][NextHandlers]_vars

\* campaigns: drafts and sends over two lists that share a contact's address
CampaignStart == 5

ContactA1 == NewContact(3, EmailA, NameJ, NameJ, 3)
ContactA2 == NewContact(4, EmailA, NameJ, NameJ, 4)

\* the lists after createList twice and addContact / CSV import
CampaignLists ==
  {<<[id |-> 1, name |-> NameJ, contacts |-> first],
     [id |-> 2, name |-> NameJ, contacts |-> second]>> :
     first \in {<<>>, <<ContactA1>>}, second \in {<<ContactA2>>}}

InitCampaign ==
  /\ \E lists \in CampaignLists : InitCoreAt(CampaignStart, lists)
  /\ page = InitialPage(EmailEmpty, None)
  /\ InitExt

NextCampaign ==
  \/ setSubject(TextHi)
  \/ setContent(TextHi)
  \/ \E l \in {1, 2} : setSelectedLists(l)
  \/ refreshApiLists
  \/ addUnsubscribeEmail(EmailA)
  \/ /\ form.currentDraft # NoDraft \/ now < MaxCampaignClock
     /\ SendFormFilled
     /\ saveDraft
  \/ \E draft \in pendingDrafts : loadDraft(draft)
  \/ now < MaxCampaignClock /\ sendEmail
  \/ switchTab

SpecCampaign == InitCampaign /\ [][NextCampaign]_vars

\* processEmailContent over message bodies built from at most MaxTokens pieces
BodyTokens ==
  {<<"h">>, <<"\n">>, <<"<", "p", ">">>, TagHtml, TagBody, TagBodyClose,
   <<"<", "/", "B", "O", "D", "Y", ">">>}

RECURSIVE Bodies(_)
Bodies(n) ==
  IF n = 0 THEN {<<>>}
  ELSE Bodies(n - 1) \cup {b \o t : b \in Bodies(n - 1), t \in BodyTokens}

SampleRecipients == {NewContact(1, EmailA, NameJ, NameJ, 1),
                     NewContact(2, EmailB, NameJ, NameJ, 2)}
UserProfiles == {NoUser, UserProfile(NameJ, <<"W">>)}

\* the input of the call is held in processed until the call is made
InitContent ==
  /\ InitCore
  /\ kvTestMode
  /\ page = InitialPage(EmailEmpty, None)
  /\ InitForms
  /\ InitStore
  /\ InitSession(SettingsOff, Localhost, PathRoot, NoSearch)
  /\ handled = NoHandled
  /\ InitAux
  /\ \E content \in Bodies(MaxTokens), contact \in SampleRecipients,
        userProfile \in UserProfiles :
       processed = [called |-> FALSE, content |-> content, emailId |-> CampaignA,
                    contact |-> contact, tenant |-> W1, userProfile |-> userProfile]

\* a call that passes the optional ids named in passed
processEmailContentCall(passed) ==
  /\ ~processed.called
  /\ processed' =
       Processed("processEmailContent", processed.content, processed.emailId, processed.contact,
                 processed.tenant, processed.userProfile,
                 IF "campaignId" \in passed THEN processed.emailId ELSE <<>>,
                 IF "contactId" \in passed THEN DigitsOf(processed.contact.id) ELSE <<>>,
                 IF "councillorId" \in passed THEN processed.tenant ELSE <<>>)
  /\ UNCHANGED <<kvTestMode, now, listVars, suppressionVars, trackingVars, calls,
                 page, composerVars, contactToast, otherForm, sessionVars,
                 storeVars, handled, auxVars>>

\* the call sendEmail makes for its first active recipient:
\* processEmailContent(content, emailId, sampleRecipient.email, user || undefined)
sendEmailProcessContent ==
  /\ ~processed.called
  /\ Trim(processed.content) # <<>>
  /\ processed' =
       Processed("sendEmail", processed.content, processed.emailId, processed.contact,
                 processed.tenant, processed.userProfile, <<>>, <<>>, <<>>)
  /\ UNCHANGED <<kvTestMode, now, listVars, suppressionVars, trackingVars, calls,
                 page, composerVars, contactToast, otherForm, sessionVars,
                 storeVars, handled, auxVars>>

NextContent ==
  \/ \E passed \in SUBSET {"campaignId", "contactId", "councillorId"} :
       processEmailContentCall(passed)
  \/ sendEmailProcessContent

SpecContent == InitContent /\ [][NextContent]_vars

\* deleting lists and contacts, starting from two stored lists
DeleteIds == {1, 2}

InitDelete ==
  /\ \E lists \in CampaignLists : InitCoreAt(CampaignStart, lists)
  /\ page = InitialPage(EmailEmpty, None)
  /\ InitExt

NextDelete ==
  \/ /\ Cardinality(pendingDeletes) < MaxPendingDeletes
     /\ \E l \in DeleteIds : deleteList(l)
  \/ /\ Cardinality(pendingDeletes) < MaxPendingDeletes
     /\ \E l \in ListIdsOf(distributionLists) :
       \E c \in {distributionLists[ListIndex(distributionLists, l)].contacts[k].id :
                   k \in 1..Len(distributionLists[ListIndex(distributionLists, l)].contacts)} :
         removeContact(l, c)
  \/ \E req \in pendingDeletes, ok \in BOOLEAN : deleteSettled(req, ok)
  \/ /\ now < MaxDeleteClock
     /\ \E l \in ListIdsOf(distributionLists) :
          /\ addContactError(l, EmailB, NameJ, NameJ) = None
          /\ addContact(l, EmailB, NameJ, NameJ)
  \/ \E req \in pendingAdds : addContactSettled(req, TRUE)

SpecDelete == InitDelete /\ [][NextDelete]_vars

\* the import of one file whose header names the columns in any order and
\* spelling, or lacks one of them
NextCsv ==
  \/ /\ lastImport = NoImport
     /\ \E l \in ListIdsOf(distributionLists) : handleFileChange(l)
  \/ \E l \in DOMAIN imports, order \in ColumnOrders, values \in HeaderRowValues :
       \E first \in HeaderSpellings[1], last \in HeaderSpellings[2],
          email \in HeaderSpellings[3] :
         importCsv(l, order, <<first, last, email>>, values)
  \/ \E l \in DOMAIN imports, ok \in BOOLEAN : importAddContactSettled(l, ok)

SpecCsv == InitDelete /\ [][NextCsv]_vars

\* the logs getEmailMetrics may read: up to MaxOpens opens of two recipients in
\* any stored order, up to two unsubscribes
OpenRecords == [emailId : EmailIds, recipientEmail : OpenEmails, openedAt : 1..MaxOpens]
OpenLogs == UNION {[1..n -> OpenRecords] : n \in 0..MaxOpens}
UnsubscribeLogs ==
  {[i \in 1..n |-> [emailId |-> "e1", recipientEmail |-> EmailA, unsubscribedAt |-> i]] :
     n \in 0..2}

NextMetrics ==
  /\ ~metricsCall.called
  /\ \E id \in EmailIds, totalSent \in 0..MaxTotalSent, opens \in OpenLogs,
        unsubscribes \in UnsubscribeLogs :
       getEmailMetricsCall(id, totalSent, opens, unsubscribes)

SpecMetrics == InitMain /\ [][NextMetrics]_vars

\* imports into two stored lists: files of up to MaxRows rows that are new,
\* duplicates of a stored contact or of each other, or invalid, an empty file
\* and a file without the email header; any API call may fail
ImportRows ==
  {<<NameJ, NameJ, EmailA>>, <<NameJ, NameJ, EmailB>>, <<<<>>, NameJ, EmailB>>}
ImportFiles ==
  {CsvFile(rows) : rows \in UNION {[1..k -> ImportRows] : k \in 0..MaxRows}}
    \cup {FileEmpty, FileNoEmailHeader}

NextImport ==
  \/ /\ now < MaxImportClock
     /\ \E l \in ListIdsOf(distributionLists) : handleFileChange(l)
  \/ \E l \in DOMAIN imports : fileTextRejected(l)
  \/ \E l \in DOMAIN imports, content \in ImportFiles : fileTextResolved(l, content)
  \/ \E l \in DOMAIN imports, ok \in BOOLEAN : importAddContactSettled(l, ok)

SpecImport == InitDelete /\ [][NextImport]_vars

\* every file read and every apiClient.addContact call returns or fails: the
\* await the handler is suspended at is eventually resumed
ImportFairness ==
  \A l \in DeleteIds :
    /\ WF_vars(fileTextRejected(l)
                 \/ \E content \in ImportFiles : fileTextResolved(l, content))
    /\ WF_vars(\E ok \in BOOLEAN : importAddContactSettled(l, ok))

\* one import, started on the stored lists and running to its end
NextImportFair ==
  \/ /\ now = CampaignStart
     /\ \E l \in ListIdsOf(distributionLists) : handleFileChange(l)
  \/ \E l \in DOMAIN imports : fileTextRejected(l)
  \/ \E l \in DOMAIN imports, content \in ImportFiles : fileTextResolved(l, content)
  \/ \E l \in DOMAIN imports, ok \in BOOLEAN : importAddContactSettled(l, ok)

SpecImportFair == InitDelete /\ [][NextImportFair]_vars /\ ImportFairness

\* both tenant inferences on a window at hostname without a session override
inferTenant(hostname) ==
  /\ ~inferredTenant.called
  /\ \E win \in {[window EXCEPT !.hostname = hostname, !.councillorContext = <<>>]} :
       inferredTenant' =
         [called |-> TRUE, hostname |-> hostname,
          header |-> councillorIdProvider(win),
          key |-> getCouncillorKey(win, KeyUnsubscribedEmails)]
  /\ UNCHANGED <<kvTestMode, now, listVars, suppressionVars, trackingVars, calls,
                 page, composerVars, contactToast, otherForm, ioVars, sessionVars,
                 storeVars, pendingDeletes, deleteCalls, deletedOnBackend,
                 contactListing, csvParsed, metricsCall>>

\* hostnames: a first label around nothing or 'localhost', and what follows it
InferHostnames ==
  {before \o middle \o after \o rest :
     before \in {<<>>, <<"w">>, W1},
     middle \in {<<>>, Localhost},
     after \in {<<>>, <<"x">>, <<"-", "d", "e", "v">>},
     rest \in {<<>>, <<".">>, <<".", "c">>, <<".", "x", ".", "c">>,
               <<".">> \o Localhost, <<".", "w", "1", ".", "x">>}}

NextInfer ==
  /\ ~inferredTenant.called
  /\ \E hostname \in InferHostnames : inferTenant(hostname)

SpecInfer == InitMain /\ [][NextInfer]_vars

\* the lists a card may show: n contacts whose names, emails and dates repeat
\* and are stored in no particular order
ListingNames == <<NameJ, <<"K">>, <<"j">>>>
ListingEmails == <<EmailB, EmailA, EmailAUpper>>
ListedContacts(n) ==
  [i \in 1..n |-> NewContact(i, ListingEmails[(i % 3) + 1], ListingNames[(i % 2) + 1],
                             ListingNames[((i * 2) % 3) + 1], (i * 7) % 11)]
ListingSizes == {0, 1, 3, CONTACTS_PER_PAGE, CONTACTS_PER_PAGE + 1, 2 * CONTACTS_PER_PAGE + 1}
SortStates == [field : {"name", "email", "addedAt"}, direction : {"asc", "desc"}]

NextListing ==
  /\ ~contactListing.called
  /\ \E n \in ListingSizes, unsubscribed \in {<<>>, <<EmailB>>}, sort \in SortStates :
       renderList(ListedContacts(n), unsubscribed, sort)

SpecListing == InitMain /\ [][NextListing]_vars

\* export of up to MaxRows contacts, read back by the import parser
NextExport ==
  /\ ~csvParsed.called
  /\ \E contacts \in ExportContacts(MaxRows) : parseExported(contacts)

SpecExport == InitMain /\ [][NextExport]_vars

\* a list id that no list carries
UnknownListId == 9

\* deleteList on its own, for stored ids and for an id that was never stored:
\* one backend delete in flight at a time
NextDeleteList ==
  \/ /\ pendingDeletes = {}
     /\ \E l \in DeleteIds \cup {UnknownListId} : deleteList(l)
  \/ \E req \in pendingDeletes, ok \in BOOLEAN : deleteSettled(req, ok)

SpecDeleteList == InitDelete /\ [][NextDeleteList]_vars

\* ---------------------------------------------------------------------- claims
\* C2: once a recordUnsubscribe(_, e) call has completed, e is in the tenant's
\* unsubscribed-emails list and stays there until it is explicitly removed
\* (Settings.removeUnsubscribeEmail or UnsubscribePage.handleResubscribe),
\* whatever other recordUnsubscribe calls run concurrently.
C2_UnsubscribeTakesEffect ==
  \A e \in completedUnsubscribes : Includes(unsubscribedEmails, e)

\* C3: however unsubscribe calls (recordUnsubscribe, handleUnsubscribe) for one
\* email interleave, the suppression list never holds more than one entry for
\* that email, and a call that has passed its list step leaves exactly one.
C3_OneEntryPerEmail ==
  [][ /\ \A e \in UnsubEmails :
           /\ CountExact(unsubscribedEmails', e) <= 1
           /\ CountExact(page'.unsubscribedEmails, e) <= 1
      /\ \A c \in CallIds :
           (calls[c].pc \in {"getList", "setList"} /\ calls'[c].pc = "getEvents")
             => CountExact(unsubscribedEmails', calls[c].recipientEmail) = 1
      /\ handleUnsubscribe
           => CountExact(PageList(page', unsubscribedEmails'), page.email) = 1
    ]_vars

\* C3 witness: two unsubscribe events of one email are logged and the list
\* holds that email once
C3_Witness ==
  \E id \in EmailIds : \E i, j \in 1..Len(emailUnsubscribes[id]) :
    /\ i < j
    /\ emailUnsubscribes[id][i].recipientEmail = emailUnsubscribes[id][j].recipientEmail
    /\ CountExact(unsubscribedEmails, emailUnsubscribes[id][i].recipientEmail) = 1

\* C4: the suppression list holds at most one entry per normalized (trimmed,
\* lower-cased) email, whichever of Settings.addUnsubscribeEmail,
\* recordUnsubscribe and handleUnsubscribe added the entries.
C4_UniquePerNormalizedEmail ==
  \A e \in UnsubEmails : CountNorm(unsubscribedEmails, e) <= 1

\* C5: when the API call of an unsubscribe attempt rejects, UnsubscribePage is
\* not in the 'Unsubscribed Successfully' state (isUnsubscribed stays false).
C5_FailureIsNotSuccess ==
  [][handleUnsubscribeRejected => ~page'.isUnsubscribed]_vars

\* C1: in every send, no contact whose normalized (trimmed, lower-cased) email
\* equals the normalized form of an entry of the unsubscribe list at that
\* moment is among the active recipients that are counted and sent to.
C1_SuppressedNeverTargeted ==
  lastSend.sent =>
    \A i \in 1..Len(lastSend.active), j \in 1..Len(lastSend.unsubscribed) :
      NormalizeEmail(lastSend.active[i].email) # NormalizeEmail(lastSend.unsubscribed[j])

\* the contacts shown for a list are exactly the stored ones that are not suppressed
ActiveViewHidesOnly(lists, unsubscribed) ==
  \A i \in 1..Len(lists) :
    LET contacts == lists[i].contacts
        active == getActiveContacts(contacts, unsubscribed)
    IN /\ Range(active) = {contact \in Range(contacts) : ~Includes(unsubscribed, contact.email)}
       /\ Len(active) = Cardinality({k \in 1..Len(contacts) :
                                       ~Includes(unsubscribed, contacts[k].email)})

\* C6: every add to or removal from the unsubscribe list (recordUnsubscribe,
\* UnsubscribePage, Settings) and every send leaves the contacts stored in
\* every distribution list unchanged; a suppressed contact is only hidden from
\* the active view and is shown again once its suppression is removed.
C6_SuppressionIsAFilter ==
  [][ /\ ( \/ unsubscribedEmails' # unsubscribedEmails
           \/ page'.unsubscribedEmails # page.unsubscribedEmails
           \/ emailUnsubscribes' # emailUnsubscribes
           \/ lastSend' # lastSend
           \/ drafts' # drafts )
         => /\ distributionLists' = distributionLists
            /\ apiDistributionLists' = apiDistributionLists
      /\ ActiveViewHidesOnly(distributionLists', unsubscribedEmails')
      /\ \A e \in UnsubEmails :
           (removeUnsubscribeEmail(e) \/ (handleResubscribe /\ kvTestMode /\ page.email = e))
             => \A i \in 1..Len(distributionLists) :
                  \A k \in 1..Len(distributionLists[i].contacts) :
                    distributionLists[i].contacts[k].email = e
                      => distributionLists[i].contacts[k] \in
                           Range(getActiveContacts(distributionLists'[i].contacts,
                                                   unsubscribedEmails'))
    ]_vars

\* C6 witness: a stored contact is suppressed, and a send has taken place
C6_Witness ==
  /\ lastSend.sent
  /\ \E i \in 1..Len(distributionLists) : \E k \in 1..Len(distributionLists[i].contacts) :
       Includes(unsubscribedEmails, distributionLists[i].contacts[k].email)

\* the number of distinct recipients among the completed recordEmailOpen calls
DistinctOpeners(id) == Cardinality(Range(completedOpens[id]))

\* C7: once the open recordings of a campaign have completed, getEmailMetrics
\* reports totalOpened equal to the number of recordings (every firing counts)
\* and as many uniqueOpens as there are distinct recipients with an open; N
\* recordings for one recipient give totalOpened = N and one unique open.
C7_EveryOpenCounts ==
  (\A c \in CallIds : calls[c].pc = "idle") =>
    \A id \in EmailIds :
      /\ getEmailMetrics(id, 1).totalOpened = Len(completedOpens[id])
      /\ Len(getEmailMetrics(id, 1).uniqueOpens) = DistinctOpeners(id)

\* C8: the stored opens and unsubscribes lists of a campaign only grow,
\* whatever recordEmailOpen and recordUnsubscribe calls run concurrently: an
\* event in a list stays in it, and a recordUnsubscribe call that completes
\* has its event in the list.
C8_EventLogAppendOnly ==
  [][ /\ \A id \in EmailIds :
           /\ Range(emailOpens[id]) \subseteq Range(emailOpens'[id])
           /\ Range(emailUnsubscribes[id]) \subseteq Range(emailUnsubscribes'[id])
      /\ \A c \in CallIds :
           recordUnsubscribeSetEvents(c)
             => UnsubscribeTracking(calls[c]) \in Range(emailUnsubscribes'[calls[c].emailId])
    ]_vars

\* C9: no distribution list holds two contacts whose trimmed, lower-cased
\* emails are equal, however addContact and CSV imports on the list interleave.
C9_NoDuplicateContacts ==
  \A i \in 1..Len(distributionLists) :
    \A j, k \in 1..Len(distributionLists[i].contacts) :
      j # k => NormalizeEmail(distributionLists[i].contacts[j].email)
                 # NormalizeEmail(distributionLists[i].contacts[k].email)

\* the contacts of list listId in lists
ContactsOf(lists, listId) == lists[ListIndex(lists, listId)].contacts

\* the i-th smallest element of a set of row numbers
NthOf(rows, i) == CHOOSE r \in rows : Cardinality({q \in rows : q <= r}) = i

\* an import of parsed into listId has counted invalid and duplicates and
\* accepted exactly the rows in accepted, in their order
ImportOutcome(listId, parsed, invalid, duplicates, accepted) ==
  /\ importStatus'[listId].skippedInvalid = Cardinality(invalid)
  /\ importStatus'[listId].skippedDuplicates = Cardinality(duplicates)
  /\ importStatus'[listId].total = Cardinality(accepted)
  /\ IF kvTestMode
     THEN LET before == ContactsOf(distributionLists, listId)
              after == ContactsOf(distributionLists', listId)
          IN /\ Len(after) = Len(before) + Cardinality(accepted)
             /\ SubSeq(after, 1, Len(before)) = before
             /\ \A i \in 1..Cardinality(accepted) :
                  after[Len(before) + i].email = Trim(parsed[NthOf(accepted, i)].email)
     ELSE /\ distributionLists' = distributionLists
          /\ accepted # {} =>
               /\ Len(imports'[listId].validEntries) = Cardinality(accepted)
               /\ \A i \in 1..Cardinality(accepted) :
                    imports'[listId].validEntries[i].email
                      = Trim(parsed[NthOf(accepted, i)].email)

C11Present(l, e) ==
  \E i \in 1..Len(ContactsOf(distributionLists, l)) :
    ToLowerCase(Trim(ContactsOf(distributionLists, l)[i].email)) = ToLowerCase(Trim(e))

\* the step shows an error and changes no list and sends no request
C11Refused ==
  /\ contactToast' \in {ErrFillFields, ErrValidEmail, ErrDuplicateEmail}
  /\ distributionLists' = distributionLists
  /\ pendingAdds' = pendingAdds

\* the step stores, or sends to the backend, a contact of list l with email e
C11Stored(l, e) ==
  /\ contactToast' = ContactAdded
  /\ kvTestMode =>
       /\ Len(ContactsOf(distributionLists', l)) = Len(ContactsOf(distributionLists, l)) + 1
       /\ ContactsOf(distributionLists', l)[Len(ContactsOf(distributionLists', l))].email = e
  /\ ~kvTestMode => \E req \in pendingAdds' : req.listId = l /\ req.email = e

\* C11: an addContact whose email is malformed, whose first or last name is
\* blank, or whose trimmed lower-cased email is already in the target list
\* shows an error and changes no distribution list (and sends no request);
\* any other addContact stores, or sends to the backend, the email exactly as
\* it was typed.  (For each input the step is either not that addContact, or
\* it is refused and the input is one the claim names or not, or it stores
\* the email as typed and the input is none the claim names.)
C11_AddContactRejects ==
  [][\A f \in ContactNames, n \in InputNames, e \in ContactEmails :
       \A bad \in {Trim(f) = <<>> \/ Trim(n) = <<>> \/ ~EMAIL_REGEX(e)} :
         \A l \in ListIdsOf(distributionLists) :
           \/ C11Refused /\ (bad \/ C11Present(l, e))
           \/ C11Stored(l, e) /\ ~bad /\ ~C11Present(l, e)
           \/ ~addContact(l, e, f, n)
    ]_vars

\* C11 witness: a list holds a contact stored with its capital letter and a
\* later addContact for the same address was rejected as a duplicate
C11_Witness ==
  /\ contactToast = ErrDuplicateEmail
  /\ \E i \in 1..Len(distributionLists) :
       \E j \in 1..Len(distributionLists[i].contacts) :
         distributionLists[i].contacts[j].email = EmailAUpper

\* C12: every key the tracking functions read or write starts with the
\* councillor id under which the call was made, and no key is used by calls
\* made under two different councillor ids (so no call touches a value that
\* belongs to another tenant).
C12_TenantIsolation ==
  \A k \in DOMAIN kvUsers :
    /\ Cardinality(kvUsers[k]) <= 1
    /\ \A tenant \in kvUsers[k] : StartsWith(k, tenant \o <<":">>)

\* the routing hint: the first label of the hostname, none for localhost
RoutingHint(hostname) ==
  LET label == Head(SplitOn(hostname, "."))
  IN IF StrIncludes(label, Localhost) THEN <<>> ELSE label

\* C13: the councillor id getCouncillorKey resolves is the published override
\* if there is one, otherwise the routing hint (first label of the hostname),
\* otherwise the configured fallback councillor id.
C13_ResolutionOrder ==
  councillorIdOf(window) =
    IF window.councillorContext # <<>> THEN window.councillorContext
    ELSE IF RoutingHint(window.hostname) # <<>> THEN RoutingHint(window.hostname)
    ELSE settings.fallbackCouncillorId

\* C14: with auth mode entra or b2c and no VITE_AUTH_BYPASS, the workspace
\* (the tab shell) is never shown while no account is signed in, and the
\* workspace never asks the backend for councillor data without an account.
C14_RoutesBlocked ==
  (settings.mode \in {"entra", "b2c"} /\ ~settings.bypassAuth) =>
    /\ app.requested # "anonymous"
    /\ ~auth.account.present => app.shows # "workspace"

\* the text of the URL that starts at position i of html: up to the closing quote
RECURSIVE UrlAt(_, _)
UrlAt(html, i) ==
  IF i > Len(html) \/ html[i] = "\"" THEN <<>>
  ELSE <<html[i]>> \o UrlAt(html, i + 1)

\* html refers to a URL of route (after introducer) that embeds every given text
RefersTo(html, introducer, route, embedded) ==
  \E i \in 1..Len(html) :
    /\ i + 1 + Len(ApiBaseUrl \o route) <= Len(html)
    /\ html[i] = introducer
    /\ html[i + 1] = "\""
    /\ \E url \in {UrlAt(html, i + 2)} :
         /\ StartsWith(url, ApiBaseUrl \o route)
         /\ \A text \in embedded : StrIncludes(url, text)

\* the ids of the recipient a processed body was built for
RecipientIds(pr) ==
  {ParamCouncillorId \o FormEncode(pr.tenant),
   ParamCampaignId \o FormEncode(pr.emailId),
   ParamContactId \o FormEncode(DigitsOf(pr.contact.id))}

\* C15: for every message body the output of processEmailContent contains the
\* open-tracking pixel reference and the unsubscribe link, and both URLs embed
\* the tenant id, the campaign id and the contact id of the recipient (the
\* unsubscribe link also the recipient's email).
C15_BodyCarriesTracking ==
  processed.called =>
    /\ RefersTo(processed.html, "<img src=", RouteTrackPixel, RecipientIds(processed))
    /\ RefersTo(processed.html,
                "<a href=",
                RouteUnsubscribe,
                RecipientIds(processed)
                  \cup {ParamEmail \o FormEncode(processed.contact.email)})

\* address is suppressed by list unsubscribed, compared by normalized email
SuppressedIn(unsubscribed, address) ==
  \E k \in 1..Len(unsubscribed) :
    NormalizeEmail(unsubscribed[k]) = NormalizeEmail(address)

\* the distinct normalized emails of the contacts that are not suppressed
DistinctUnsuppressed(contacts, unsubscribed) ==
  {NormalizeEmail(contacts[i].email) :
     i \in {j \in 1..Len(contacts) : ~SuppressedIn(unsubscribed, contacts[j].email)}}

\* C16: the recipients of a send are the contacts of the selected lists
\* deduplicated by normalized email: the number of recipients targeted (the
\* recorded total) equals the number of distinct unsuppressed normalized emails.
C16_RecipientsDeduplicated ==
  lastSend.sent =>
    Len(lastSend.active) =
      Cardinality(DistinctUnsuppressed(lastSend.all, lastSend.unsubscribed))

\* the latest sendEmail ran on a filled-in form and found no active recipient
SentToNobody ==
  /\ lastSend.toast \notin {None, ErrFillAllFields}
  /\ Len(lastSend.active) = 0

\* C17: sending with a recipient set that is empty after suppression filtering
\* is not an error: the campaign record becomes sent with totalRecipients 0 and
\* no dispatch call is made.
C17_EmptySendIsSent ==
  SentToNobody =>
    /\ lastSend.sent
    /\ ~lastSend.threw
    /\ ~lastSend.dispatched
    /\ \E i \in 1..Len(drafts) :
         drafts[i].status = "sent" /\ drafts[i].totalRecipients = 0

\* C18: once a record of the drafts store has status sent, no step changes its
\* status, subject, content or selected lists.
C18_SentIsImmutable ==
  [][\A i \in 1..Len(drafts) :
       drafts[i].status = "sent" =>
         /\ i <= Len(drafts')
         /\ drafts'[i].id = drafts[i].id
         /\ drafts'[i].status = "sent"
         /\ drafts'[i].subject = drafts[i].subject
         /\ drafts'[i].content = drafts[i].content
         /\ drafts'[i].selectedLists = drafts[i].selectedLists]_vars

\* C19: handleTrackingPixel returns the fixed 1x1 transparent GIF response
\* (image/gif, cache-disabling headers) for every query, and the response does
\* not depend on the open-event write, which it does not wait for.
C19_PixelAlwaysReturned ==
  (handled.called /\ handled.handler = "handleTrackingPixel") =>
    /\ handled.outcome = "returned"
    /\ handled.response = PixelResponse

\* C20: an unsubscribe request without an email ends with a validation error,
\* not with success, and leaves the unsubscribe list and the unsubscribe event
\* log unchanged, in UnsubscribePage.handleUnsubscribe and in
\* createTrackingHandlers().handleUnsubscribe.
C20_MissingEmailIsAnError ==
  [][/\ (/\ handled' # handled
         /\ handled'.called
         /\ handled'.handler = "handleUnsubscribe"
         /\ handled'.email = <<>>)
        => /\ handled'.outcome \notin {"resolved", "pending"}
           /\ UNCHANGED <<unsubscribedEmails, emailUnsubscribes, calls>>
     /\ (/\ page.email = <<>>
         /\ page'.email = <<>>
         /\ page' # page)
        => /\ page'.error = ErrEnterEmail
           /\ ~page'.isUnsubscribed
           /\ UNCHANGED <<unsubscribedEmails, emailUnsubscribes, calls>>]_vars

\* the contact ids stored anywhere in lists
ContactIdsOf(lists) ==
  UNION {{lists[i].contacts[k].id : k \in 1..Len(lists[i].contacts)} :
           i \in 1..Len(lists)}

\* the contact ids of the list listId of lists (none when it is not stored)
ContactIdsIn(lists, listId) ==
  ContactIdsOf(SelectSeq(lists, LAMBDA list : list.id = listId))

\* C21: deleteList cascades and is idempotent: after deleteList(listId) neither
\* the list nor any of its contacts is stored, every other list is unchanged
\* and keeps its place, and a call for an id that is not stored (a second call,
\* or an id that never existed) leaves the stored lists as they were.
C21_DeleteCascadesIdempotent ==
  [][\A l \in DeleteIds \cup {UnknownListId} :
       deleteList(l) =>
         /\ ListIndex(distributionLists', l) = 0
         /\ ContactIdsIn(distributionLists, l) \cap ContactIdsOf(distributionLists') = {}
         /\ \A i \in 1..Len(distributionLists) :
              distributionLists[i].id # l =>
                \E j \in 1..Len(distributionLists') :
                  /\ distributionLists'[j] = distributionLists[i]
                  /\ j = i - Cardinality({k \in 1..i : distributionLists[k].id = l})
         /\ Len(distributionLists') =
              Cardinality({i \in 1..Len(distributionLists) : distributionLists[i].id # l})
         /\ (ListIndex(distributionLists, l) = 0 =>
               distributionLists' = distributionLists)]_vars

\* a list with a contact was deleted while another list was stored, and
\* deleteList was then called again for the same id, which was not stored
C21_Witness ==
  /\ Len(deleteCalls) = 2
  /\ deleteCalls[1].listId = deleteCalls[2].listId
  /\ deleteCalls[1].contacts >= 1
  /\ deleteCalls[2].contacts = 0
  /\ ListIndex(distributionLists, deleteCalls[2].listId) = 0
  /\ Len(distributionLists) >= 1

\* C27: in API mode a failed backend delete restores only what the optimistic
\* removal took away; here its last part: a list whose backend delete has
\* succeeded is never stored again.
C27_DeletedListNeverReappears ==
  \A id \in deletedOnBackend : ListIndex(distributionLists, id) = 0

\* the row of the latest file read, as the triple its values stand for
C22Triple == [firstName |-> csvParsed'.values[1], lastName |-> csvParsed'.values[2],
              email |-> csvParsed'.values[3]]

\* C22: CSV header lookup is name-based, case-insensitive and
\* order-independent: under every order and letter case of the header columns
\* firstname, lastname, email the data row is read as the same {firstName,
\* lastName, email} triple, and a valid row that is no duplicate is imported
\* (appended in KV mode, sent to the backend in API mode); a header that lacks
\* one of the three names fails the whole import and adds no contact.
C22_HeaderLookupByName ==
  [][(csvParsed' # csvParsed /\ csvParsed'.called) =>
       \A l \in {lastImport'.listId} :
         IF Len(csvParsed'.order) = 3
         THEN /\ lastImport'.parsed = <<C22Triple>>
              /\ NormalizeEmail(C22Triple.email) \notin ExistingEmails(imports[l].targetList) =>
                   IF kvTestMode
                   THEN /\ l \notin DOMAIN imports'
                        /\ \E i \in 1..Len(ContactsOf(distributionLists', l)) :
                             \E c \in {ContactsOf(distributionLists', l)[i]} :
                               /\ c.email = C22Triple.email
                               /\ c.firstName = C22Triple.firstName
                               /\ c.lastName = C22Triple.lastName
                   ELSE /\ l \in DOMAIN imports'
                        /\ imports'[l].validEntries = <<C22Triple>>
         ELSE /\ lastImport'.parsed = <<>>
              /\ l \notin DOMAIN imports'
              /\ l \notin importingLists'
              /\ UNCHANGED <<distributionLists, importStatus, pendingAdds>>]_vars

\* a file with the header email,firstname,lastname was read and its row is in
\* the list as a contact
C22_Witness ==
  /\ csvParsed.called
  /\ csvParsed.order = <<3, 1, 2>>
  /\ csvParsed.values[3] = EmailB
  /\ \E l \in ListIdsOf(distributionLists) :
       \E i \in 1..Len(ContactsOf(distributionLists, l)) :
         /\ ContactsOf(distributionLists, l)[i].email = EmailB
         /\ ContactsOf(distributionLists, l)[i].firstName = NameJ
         /\ ContactsOf(distributionLists, l)[i].lastName = NameK

\* C23: the import parser honours quoted-field escaping: parsing the text that
\* downloadContactsCsv wrote for contacts yields exactly those contacts'
\* {firstName, lastName, email} triples, also when a field holds a comma, a
\* double quote or a newline.
C23_ExportImportRoundTrip ==
  csvParsed.called =>
    /\ csvParsed.result.ok
    /\ csvParsed.result.contacts =
         [i \in 1..Len(csvParsed.contacts) |->
            [firstName |-> csvParsed.contacts[i].firstName,
             lastName |-> csvParsed.contacts[i].lastName,
             email |-> csvParsed.contacts[i].email]]

\* C24: getEmailMetrics returns openRate = totalOpens / totalSent * 100 and
\* unsubscribeRate = totalUnsubscribes / totalSent * 100 when totalSent > 0,
\* and both rates as 0, without a division by zero, when totalSent is 0; the
\* totals are the lengths of the two logs.
C24_RatesGuarded ==
  metricsCall.called =>
    \A r \in {metricsCall.result} :
      /\ r.totalOpened = Len(metricsCall.opens)
      /\ r.totalUnsubscribed = Len(metricsCall.unsubscribes)
      /\ r.openRate.den # 0
      /\ r.unsubscribeRate.den # 0
      /\ IF metricsCall.totalSent > 0
         THEN /\ r.openRate.num * metricsCall.totalSent
                   = r.totalOpened * 100 * r.openRate.den
              /\ r.unsubscribeRate.num * metricsCall.totalSent
                   = r.totalUnsubscribed * 100 * r.unsubscribeRate.den
         ELSE r.openRate.num = 0 /\ r.unsubscribeRate.num = 0

\* metrics were asked for an email sent to nobody that has opens and
\* unsubscribes on record
C24_Witness ==
  /\ metricsCall.called
  /\ metricsCall.totalSent = 0
  /\ Len(metricsCall.opens) > 0
  /\ Len(metricsCall.unsubscribes) > 0

\* C26: earliest open wins: for every opens log and every recipient with at
\* least one open, uniqueOpens holds exactly one record for that recipient, it
\* is an open of the log, and its timestamp is less than or equal to that of
\* every open of that recipient, in whatever order the opens are stored.
C26_EarliestOpenWins ==
  metricsCall.called =>
    \A i \in 1..Len(metricsCall.opens) :
      \E k \in 1..Len(metricsCall.result.uniqueOpens) :
        \E u \in {metricsCall.result.uniqueOpens[k]} :
          /\ u.recipientEmail = metricsCall.opens[i].recipientEmail
          /\ \E j \in 1..Len(metricsCall.opens) : metricsCall.opens[j] = u
          /\ \A j \in 1..Len(metricsCall.opens) :
               metricsCall.opens[j].recipientEmail = u.recipientEmail =>
                 u.openedAt <= metricsCall.opens[j].openedAt
          /\ \A m \in 1..Len(metricsCall.result.uniqueOpens) :
               metricsCall.result.uniqueOpens[m].recipientEmail = u.recipientEmail =>
                 m = k

\* metrics were computed from a log that stores a later open of a recipient
\* before an earlier one
C26_Witness ==
  /\ metricsCall.called
  /\ \E i, j \in 1..Len(metricsCall.opens) :
       /\ i < j
       /\ metricsCall.opens[i].recipientEmail = metricsCall.opens[j].recipientEmail
       /\ metricsCall.opens[j].openedAt < metricsCall.opens[i].openedAt

\* the listing shows the contacts whose email is not on the unsubscribe list,
\* each once, ordered by the sort value in the sort direction, contacts of
\* equal value in their stored order
C25Sorted(listing) ==
  \A sorted \in {listing.sortedContacts} :
    /\ {sorted[k] : k \in 1..Len(sorted)} =
         {listing.contacts[i] : i \in {j \in 1..Len(listing.contacts) :
              ~Includes(listing.unsubscribed, listing.contacts[j].email)}}
    /\ \A k \in 1..(Len(sorted) - 1) :
         \A c \in {CompareValues(listing.sort,
                                 SortValue(listing.sort.field, sorted[k]),
                                 SortValue(listing.sort.field, sorted[k + 1]))} :
           c < 0 \/ (c = 0 /\ sorted[k].id < sorted[k + 1].id)

\* C25: listing contacts is deterministic and the pages partition the sorted
\* list: for any contacts, sort field, direction and stored page number the
\* displayed page index lies in 1..totalPages, each page holds at most 200
\* contacts, and the pages 1..totalPages in order are exactly the sorted
\* active contacts, none skipped or repeated.
C25_PagesPartitionSortedList ==
  contactListing.called =>
    \A sorted \in {contactListing.sortedContacts} :
    \A pages \in {contactListing.pages} :
      /\ C25Sorted(contactListing)
      /\ contactListing.totalPages >= 1
      /\ contactListing.currentPage \in 1..contactListing.totalPages
      /\ contactListing.stored \in 1..contactListing.totalPages =>
           contactListing.currentPage = contactListing.stored
      /\ DOMAIN pages = 1..contactListing.totalPages
      /\ \A p \in DOMAIN pages :
           /\ Len(pages[p]) <= 200
           /\ Len(pages[p]) = IF p < contactListing.totalPages THEN 200
                              ELSE Len(sorted) - 200 * (contactListing.totalPages - 1)
      /\ \A k \in 1..Len(sorted) :
           sorted[k] = pages[((k - 1) \div 200) + 1][((k - 1) % 200) + 1]

\* a list of 201 active contacts was shown with a stored page number beyond
\* its two pages: the second page, of one contact, is displayed
C25_Witness ==
  /\ contactListing.called
  /\ Len(contactListing.sortedContacts) = 201
  /\ contactListing.totalPages = 2
  /\ contactListing.stored > 2
  /\ contactListing.currentPage = 2
  /\ Len(contactListing.pages[2]) = 1

\* C28: the API client's default tenant inference mirrors getCouncillorKey:
\* for every hostname, with no session override set, the councillor id the
\* default councillorIdProvider returns is the prefix getCouncillorKey puts in
\* front of the base key.
C28_ProviderMirrorsKey ==
  inferredTenant.called =>
    inferredTenant.key = inferredTenant.header \o <<":">> \o KeyUnsubscribedEmails

\* the progress status st is consistent: completed <= total and
\* pending = total - completed
C29Progress(st) ==
  /\ st.completed <= st.total
  /\ st.pending = st.total - st.completed

\* an import in flight has counted each entry it has passed once, as added or
\* as failed
C29InFlight ==
  \A l \in DOMAIN imports :
    imports[l].pc = "adding" =>
      /\ importStatus[l].total = Len(imports[l].validEntries)
      /\ importStatus[l].completed = Len(imports[l].addedContacts)
      /\ Len(imports[l].addedContacts) + imports[l].failedAdds = imports[l].idx - 1

C30_ImportReleasesList ==
  /\ \A l \in DeleteIds : (l \in importingLists) ~> (l \notin importingLists)
  /\ [][\A l \in DOMAIN imports :
          (/\ imports[l].pc = "adding"
           /\ imports[l].idx < Len(imports[l].validEntries)
           /\ importAddContactSettled(l, FALSE))
            => /\ l \in DOMAIN imports'
               /\ imports'[l].pc = "adding"
               /\ imports'[l].idx = imports[l].idx + 1
               /\ imports'[l].validEntries = imports[l].validEntries]_vars

\* no import is running, and an API-mode import of two new rows has finished
\* with one of its two calls failed and the other row added
C30_Witness ==
  /\ ~kvTestMode
  /\ importingLists = {}
  /\ \E l \in DOMAIN importStatus :
       /\ importStatus[l].total = 2
       /\ importStatus[l].completed = 1
       /\ \E i \in 1..Len(ContactsOf(distributionLists, l)) :
            ContactsOf(distributionLists, l)[i].email = EmailB

====
